---- MODULE Spec2Model ----
(***************************************************************************)
(* Fourier-Motzkin decision procedure of reftype::fm (types.hpp,           *)
(* rounding.hpp, eliminate.hpp, parser.hpp, disjunction.hpp, solver.hpp).  *)
(*                                                                         *)
(* Numbers.  The code computes in double.  Every value the bounded inputs  *)
(* below can produce is a small rational whose numerator and denominator   *)
(* are far inside the 53-bit mantissa, and the only inexact operation the  *)
(* code performs on such values is the division inside                     *)
(* round_integer_bound and parse_arith("div"); the quotient of the first   *)
(* is consumed by ceil_val / floor_val / is_integer_val only, whose result *)
(* on the correctly rounded quotient equals the result on the exact one.   *)
(* A double is therefore modelled by the exact rational <<num, den>>,      *)
(* den > 0, in lowest terms.  A throw is modelled by the record            *)
(* [error |-> message]; boolean verdicts are the strings "true" / "false"  *)
(* so that a verdict and an error message can be compared.                 *)
(***************************************************************************)
EXTENDS Integers, Sequences, FiniteSets, TLC

\* ---------------------------------------------------------------- rationals
RECURSIVE Gcd(_, _)
Gcd(a, b) == IF b = 0 THEN a ELSE Gcd(b, a % b)

Abs(n) == IF n < 0 THEN -n ELSE n

Rat(n, d) ==
    LET s == IF d < 0 THEN -1 ELSE 1
        g == Gcd(Abs(n), Abs(d))
    IN  <<(s * n) \div g, (s * d) \div g>>

R(n) == <<n, 1>>
Zero == <<0, 1>>
One == <<1, 1>>
RAdd(a, b) == Rat(a[1] * b[2] + b[1] * a[2], a[2] * b[2])
RNeg(a) == <<-a[1], a[2]>>
RSub(a, b) == RAdd(a, RNeg(b))
RMul(a, b) == Rat(a[1] * b[1], a[2] * b[2])
RDiv(a, b) == Rat(a[1] * b[2], a[2] * b[1])
RLt(a, b) == a[1] * b[2] < b[1] * a[2]
RLe(a, b) == a[1] * b[2] <= b[1] * a[2]
RPos(a) == a[1] > 0
RNegative(a) == a[1] < 0
RIsZero(a) == a[1] = 0

\* static_cast<double>(static_cast<long long>(x)): truncation toward zero
Trunc(x) == IF x[1] >= 0 THEN R(x[1] \div x[2]) ELSE R(-((-x[1]) \div x[2]))

\* ------------------------------------------------------------- error values
Err(msg) == [error |-> msg]
IsErr(x) == "error" \in DOMAIN x

\* ------------------------------------------------------ capacities (types.hpp)
MaxTermsPerIneq == 8
MaxVars == 16
MaxIneqs == 64
MaxClauses == 8

\* ---------------------------------------------------------------- types.hpp
LinearTerm(v, c) == [var_id |-> v, coeff |-> c]

\* LinearInequality::make
make(ts, c, s) ==
    IF Len(ts) > MaxTermsPerIneq
    THEN Err("LinearInequality: too many terms")
    ELSE [terms |-> ts, constant |-> c, strict |-> s]

\* a bool result as the verdict string the model uses for results that may throw
Verdict(b) == IF b THEN "true" ELSE "false"

\* VarInfo: the sequence of (name, is_integer); the id of entry i is i - 1
EmptyVarInfo == <<>>

\* VarInfo::find : the id of name, or -1 for std::nullopt
find(vars, name) ==
    IF \E i \in 1..Len(vars) : vars[i].name = name
    THEN (CHOOSE i \in 1..Len(vars) :
              /\ vars[i].name = name
              /\ \A j \in 1..(i - 1) : vars[j].name # name) - 1
    ELSE -1

\* mutant of find_or_add: a repeated registration overwrites the stored flag
find_or_add_reflag(vars, name, integer) ==
    IF find(vars, name) >= 0
    THEN [vars |-> [vars EXCEPT ![find(vars, name) + 1].is_integer = integer],
          id |-> find(vars, name)]
    ELSE IF Len(vars) >= MaxVars
         THEN Err("VarInfo capacity exceeded")
         ELSE [vars |-> Append(vars, [name |-> name, is_integer |-> integer]),
               id |-> Len(vars)]

\* VarInfo::find_or_add : [vars, id], or an error.  Every name of the model is
\* shorter than the 16 characters of names[i], so "VarInfo name too long" is
\* never thrown.
find_or_add(vars, name, integer) ==
    IF find(vars, name) >= 0
    THEN [vars |-> vars, id |-> find(vars, name)]
    ELSE IF Len(vars) >= MaxVars
         THEN Err("VarInfo capacity exceeded")
         ELSE [vars |-> Append(vars, [name |-> name, is_integer |-> integer]),
               id |-> Len(vars)]

EmptySystem == [ineqs |-> <<>>, vars |-> EmptyVarInfo]

\* mutant of add: at capacity the new inequality is dropped
add_saturating(sys, ineq) ==
    IF Len(sys.ineqs) >= MaxIneqs THEN sys
    ELSE [sys EXCEPT !.ineqs = Append(sys.ineqs, ineq)]

\* mutant of add: the new inequality overwrites the last one
add_overwrite(sys, ineq) ==
    IF Len(sys.ineqs) = 0 THEN [sys EXCEPT !.ineqs = <<ineq>>]
    ELSE [sys EXCEPT !.ineqs[Len(sys.ineqs)] = ineq]

\* InequalitySystem::add
add(sys, ineq) ==
    IF Len(sys.ineqs) >= MaxIneqs
    THEN Err("InequalitySystem capacity exceeded")
    ELSE [sys EXCEPT !.ineqs = Append(sys.ineqs, ineq)]

\* ------------------------------------------------------------- rounding.hpp
ceil_val(x) ==
    LET truncated == Trunc(x)
    IN  IF RLt(truncated, x) THEN RAdd(truncated, One) ELSE truncated

floor_val(x) ==
    LET truncated == Trunc(x)
    IN  IF RLt(x, truncated) THEN RSub(truncated, One) ELSE truncated

is_integer_val(x) == x = Trunc(x)

\* mutant of round_integer_bound: the inequality is returned as it came
round_integer_bound_unchanged(ineq, is_lower, target_coeff) == ineq

\* mutant of round_integer_bound: the constant is always rounded as if the
\* coefficient were 1
round_integer_bound_unit(ineq, is_lower, target_coeff) ==
    IF /\ Len(ineq.terms) > 1
       /\ \E i \in 1..Len(ineq.terms) : ~is_integer_val(ineq.terms[i].coeff)
    THEN ineq
    ELSE
      LET lbound == RNeg(ineq.constant)
          ubound == ineq.constant
          c == IF is_lower
               THEN IF ineq.strict /\ is_integer_val(lbound)
                    THEN RNeg(RAdd(lbound, One))
                    ELSE RNeg(ceil_val(lbound))
               ELSE IF ineq.strict /\ is_integer_val(ubound)
                    THEN RSub(ubound, One)
                    ELSE floor_val(ubound)
      IN  [ineq EXCEPT !.constant = c, !.strict = FALSE]

\* mutant of round_integer_bound: a multi-term inequality is normalized by
\* target_coeff as well
round_integer_bound_by_target(ineq, is_lower, target_coeff) ==
    IF /\ Len(ineq.terms) > 1
       /\ \E i \in 1..Len(ineq.terms) : ~is_integer_val(ineq.terms[i].coeff)
    THEN ineq
    ELSE
      LET coeff == target_coeff
          lbound == RDiv(RNeg(ineq.constant), coeff)
          ubound == RDiv(ineq.constant, coeff)
          c == IF is_lower
               THEN IF ineq.strict /\ is_integer_val(lbound)
                    THEN RMul(RNeg(RAdd(lbound, One)), coeff)
                    ELSE RMul(RNeg(ceil_val(lbound)), coeff)
               ELSE IF ineq.strict /\ is_integer_val(ubound)
                    THEN RMul(RSub(ubound, One), coeff)
                    ELSE RMul(floor_val(ubound), coeff)
      IN  [ineq EXCEPT !.constant = c, !.strict = FALSE]

\* mutant of round_integer_bound: a strict bound is rounded like a non-strict
\* one, so an integer boundary value stays allowed
round_integer_bound_keep_boundary(ineq, is_lower, target_coeff) ==
    IF /\ Len(ineq.terms) > 1
       /\ \E i \in 1..Len(ineq.terms) : ~is_integer_val(ineq.terms[i].coeff)
    THEN ineq
    ELSE
      LET coeff == IF Len(ineq.terms) = 1 THEN target_coeff ELSE One
          lbound == RDiv(RNeg(ineq.constant), coeff)
          ubound == RDiv(ineq.constant, coeff)
          c == IF is_lower
               THEN RMul(RNeg(ceil_val(lbound)), coeff)
               ELSE RMul(floor_val(ubound), coeff)
      IN  [ineq EXCEPT !.constant = c, !.strict = FALSE]

round_integer_bound(ineq, is_lower, target_coeff) ==
    IF /\ Len(ineq.terms) > 1
       /\ \E i \in 1..Len(ineq.terms) : ~is_integer_val(ineq.terms[i].coeff)
    THEN ineq
    ELSE
      LET coeff == IF Len(ineq.terms) = 1 THEN target_coeff ELSE One
          lbound == RDiv(RNeg(ineq.constant), coeff)
          ubound == RDiv(ineq.constant, coeff)
          c == IF is_lower
               THEN IF ineq.strict /\ is_integer_val(lbound)
                    THEN RMul(RNeg(RAdd(lbound, One)), coeff)
                    ELSE RMul(RNeg(ceil_val(lbound)), coeff)
               ELSE IF ineq.strict /\ is_integer_val(ubound)
                    THEN RMul(RSub(ubound, One), coeff)
                    ELSE RMul(floor_val(ubound), coeff)
      IN  [ineq EXCEPT !.constant = c, !.strict = FALSE]

\* ------------------------------------------------------------ eliminate.hpp
\* the merge loop of combine_bounds: add coeff * scale of every term of
\* `terms` except var_id's to `result`, from term i on
RECURSIVE merge_scaled(_, _, _, _, _)
merge_scaled(result, terms, scale, var_id, i) ==
    IF IsErr(result) \/ i > Len(terms) THEN result
    ELSE IF terms[i].var_id = var_id
    THEN merge_scaled(result, terms, scale, var_id, i + 1)
    ELSE
      LET scaled == RMul(terms[i].coeff, scale)
          rt == result.terms
          hit == {j \in 1..Len(rt) : rt[j].var_id = terms[i].var_id}
          first == CHOOSE j \in hit : \A k \in hit : j <= k
          next ==
            IF hit # {}
            THEN [result EXCEPT !.terms[first].coeff = RAdd(@, scaled)]
            ELSE IF Len(rt) >= MaxTermsPerIneq
                 THEN Err("combine_bounds: too many terms")
                 ELSE [result EXCEPT
                         !.terms = Append(rt, LinearTerm(terms[i].var_id, scaled))]
      IN  merge_scaled(next, terms, scale, var_id, i + 1)

\* mutant of prune_zero: zero-coefficient terms are kept
prune_zero_keep(result) == result

\* the pruning loop of combine_bounds
prune_zero(result) ==
    IF IsErr(result) THEN result
    ELSE [result EXCEPT
            !.terms = SelectSeq(result.terms, LAMBDA t : ~RIsZero(t.coeff))]

combine_bounds(lower, lower_coeff, upper, upper_abs_coeff, var_id) ==
    LET r0 == [terms |-> <<>>,
               constant |-> RAdd(RMul(lower.constant, upper_abs_coeff),
                                 RMul(upper.constant, lower_coeff)),
               strict |-> lower.strict \/ upper.strict]
        r1 == merge_scaled(r0, lower.terms, upper_abs_coeff, var_id, 1)
        r2 == merge_scaled(r1, upper.terms, lower_coeff, var_id, 1)
    IN  prune_zero(r2)

\* mutant of coeff_of: the sign of the coefficient is lost
coeff_of_unsigned(ineq, var_id) ==
    LET hit == {t \in 1..Len(ineq.terms) : ineq.terms[t].var_id = var_id}
        c == ineq.terms[CHOOSE t \in hit : \A k \in hit : t <= k].coeff
    IN  IF hit = {} THEN Zero
        ELSE IF RNegative(c) THEN RNeg(c) ELSE c

\* the coefficient scan of eliminate_variable: the first term on var_id
coeff_of(ineq, var_id) ==
    LET hit == {t \in 1..Len(ineq.terms) : ineq.terms[t].var_id = var_id}
    IN  IF hit = {} THEN Zero
        ELSE ineq.terms[CHOOSE t \in hit : \A k \in hit : t <= k].coeff

\* the partition loop of eliminate_variable from inequality i on: the indices
\* whose coefficient on var_id is positive (sign = 1) or negative (sign = -1)
RECURSIVE idx_where(_, _, _, _)
idx_where(sys, var_id, sign, i) ==
    IF i > Len(sys.ineqs) THEN <<>>
    ELSE LET c == coeff_of(sys.ineqs[i], var_id)
             here == IF sign > 0 THEN RPos(c) ELSE RNegative(c)
         IN  (IF here THEN <<i>> ELSE <<>>) \o idx_where(sys, var_id, sign, i + 1)

\* result = result.add(x) for every x of items, stopping at the first throw
RECURSIVE add_all(_, _, _)
add_all(result, items, i) ==
    IF IsErr(result) \/ i > Len(items) THEN result
    ELSE IF IsErr(items[i]) THEN items[i]
    ELSE add_all(add(result, items[i]), items, i + 1)

\* mutant of is_integer_var: every variable is taken for integer-domain
is_integer_var_always(sys, var_id) == TRUE

\* sys.vars.is_integer[var_id]
is_integer_var(sys, var_id) == sys.vars[var_id + 1].is_integer

\* mutant of eliminate_variable: a bound without a partner on the other side
\* is copied to the result instead of dropped
eliminate_variable_keep_unpaired(sys, var_id) ==
    IF var_id < 0 \/ var_id >= Len(sys.vars)
    THEN Err("eliminate_variable: var_id out of range")
    ELSE
      LET lower_idx == idx_where(sys, var_id, 1, 1)
          upper_idx == idx_where(sys, var_id, -1, 1)
          unrelated == SelectSeq(sys.ineqs, LAMBDA q : RIsZero(coeff_of(q, var_id)))
          lower_coeff(li) == coeff_of(sys.ineqs[lower_idx[li]], var_id)
          upper_abs_coeff(ui) == RNeg(coeff_of(sys.ineqs[upper_idx[ui]], var_id))
          int == is_integer_var(sys, var_id)
          lo(li) == IF int
                    THEN round_integer_bound(sys.ineqs[lower_idx[li]], TRUE,
                                             lower_coeff(li))
                    ELSE sys.ineqs[lower_idx[li]]
          up(ui) == IF int
                    THEN round_integer_bound(sys.ineqs[upper_idx[ui]], FALSE,
                                             upper_abs_coeff(ui))
                    ELSE sys.ineqs[upper_idx[ui]]
          L == Len(lower_idx)
          U == Len(upper_idx)
          combined == [k \in 1..(L * U) |->
                         LET li == ((k - 1) \div U) + 1
                             ui == ((k - 1) % U) + 1
                         IN  combine_bounds(lo(li), lower_coeff(li),
                                            up(ui), upper_abs_coeff(ui), var_id)]
          unpaired == IF U = 0 THEN [li \in 1..L |-> lo(li)]
                      ELSE IF L = 0 THEN [ui \in 1..U |-> up(ui)]
                      ELSE <<>>
          r0 == add_all([ineqs |-> <<>>, vars |-> sys.vars], unrelated \o unpaired, 1)
      IN  add_all(r0, combined, 1)

eliminate_variable(sys, var_id) ==
    IF var_id < 0 \/ var_id >= Len(sys.vars)
    THEN Err("eliminate_variable: var_id out of range")
    ELSE
      LET lower_idx == idx_where(sys, var_id, 1, 1)
          upper_idx == idx_where(sys, var_id, -1, 1)
          unrelated == SelectSeq(sys.ineqs, LAMBDA q : RIsZero(coeff_of(q, var_id)))
          lower_coeff(li) == coeff_of(sys.ineqs[lower_idx[li]], var_id)
          upper_abs_coeff(ui) == RNeg(coeff_of(sys.ineqs[upper_idx[ui]], var_id))
          int == is_integer_var(sys, var_id)
          lo(li) == IF int
                    THEN round_integer_bound(sys.ineqs[lower_idx[li]], TRUE,
                                             lower_coeff(li))
                    ELSE sys.ineqs[lower_idx[li]]
          up(ui) == IF int
                    THEN round_integer_bound(sys.ineqs[upper_idx[ui]], FALSE,
                                             upper_abs_coeff(ui))
                    ELSE sys.ineqs[upper_idx[ui]]
          L == Len(lower_idx)
          U == Len(upper_idx)
          combined == [k \in 1..(L * U) |->
                         LET li == ((k - 1) \div U) + 1
                             ui == ((k - 1) % U) + 1
                         IN  combine_bounds(lo(li), lower_coeff(li),
                                            up(ui), upper_abs_coeff(ui), var_id)]
          r0 == add_all([ineqs |-> <<>>, vars |-> sys.vars], unrelated, 1)
      IN  add_all(r0, combined, 1)

\* mutant of has_contradiction: the strict flag is ignored
has_contradiction_nonstrict(sys) ==
    LET bad(q) == \/ Len(q.terms) # 0
                  \/ RNegative(q.constant)
        hit == {i \in 1..Len(sys.ineqs) : bad(sys.ineqs[i])}
        first == CHOOSE i \in hit : \A k \in hit : i <= k
    IN  IF hit = {} THEN "false"
        ELSE IF Len(sys.ineqs[first].terms) # 0
             THEN "has_contradiction: system still has variable terms"
             ELSE "true"

has_contradiction(sys) ==
    LET bad(q) == \/ Len(q.terms) # 0
                  \/ q.strict /\ RLe(q.constant, Zero)
                  \/ ~q.strict /\ RNegative(q.constant)
        hit == {i \in 1..Len(sys.ineqs) : bad(sys.ineqs[i])}
        first == CHOOSE i \in hit : \A k \in hit : i <= k
    IN  IF hit = {} THEN "false"
        ELSE IF Len(sys.ineqs[first].terms) # 0
             THEN "has_contradiction: system still has variable terms"
             ELSE "true"

\* the loop of fm_is_unsat from variable v on
RECURSIVE fm_loop(_, _)
fm_loop(sys, v) ==
    IF IsErr(sys) THEN sys
    ELSE IF v >= Len(sys.vars) THEN sys
    ELSE fm_loop(eliminate_variable(sys, v), v + 1)

fm_is_unsat(sys) ==
    LET verdict(s) == IF IsErr(s) THEN s.error ELSE has_contradiction(s)
    IN  verdict(fm_loop(sys, 0))

\* ---------------------------------------------------------- disjunction.hpp
\* mutant of negate_inequality: the result is made strict instead of toggled
negate_inequality_strict(ineq) ==
    [terms |-> [i \in 1..Len(ineq.terms) |->
                  [ineq.terms[i] EXCEPT !.coeff = RNeg(@)]],
     constant |-> RNeg(ineq.constant),
     strict |-> TRUE]

negate_inequality(ineq) ==
    [terms |-> [i \in 1..Len(ineq.terms) |->
                  [ineq.terms[i] EXCEPT !.coeff = RNeg(@)]],
     constant |-> RNeg(ineq.constant),
     strict |-> ~ineq.strict]

\* the registry guard of clause_implies
compatible_orderings(a, b) ==
    LET smaller == IF Len(a.vars) <= Len(b.vars) THEN a.vars ELSE b.vars
        larger == IF Len(a.vars) <= Len(b.vars) THEN b.vars ELSE a.vars
    IN  \A i \in 1..Len(smaller) : find(larger, smaller[i].name) = i - 1

\* the loop of clause_implies over b.ineqs from i on
RECURSIVE implies_loop(_, _, _)
implies_loop(a, b, i) ==
    IF i > Len(b.ineqs) THEN "true"
    ELSE
      LET unsat(test) == IF IsErr(test) THEN test.error ELSE fm_is_unsat(test)
          step(u) == IF u = "true" THEN implies_loop(a, b, i + 1)
                     ELSE IF u = "false" THEN "false"
                     ELSE u
      IN  step(unsat(add(a, negate_inequality(b.ineqs[i]))))

\* mutant of clause_implies: only the first inequality of b is tested
clause_implies_first(a, b) ==
    IF ~compatible_orderings(a, b)
    THEN "clause_implies: incompatible variable orderings"
    ELSE IF Len(b.ineqs) = 0 THEN "true"
    ELSE implies_loop(a, [b EXCEPT !.ineqs = <<b.ineqs[1]>>], 1)

\* mutant of clause_implies: b follows only if a lists each of its inequalities
clause_implies_syntactic(a, b) ==
    IF ~compatible_orderings(a, b)
    THEN "clause_implies: incompatible variable orderings"
    ELSE Verdict(\A i \in 1..Len(b.ineqs) :
                    \E j \in 1..Len(a.ineqs) : a.ineqs[j] = b.ineqs[i])

clause_implies(a, b) ==
    IF ~compatible_orderings(a, b)
    THEN "clause_implies: incompatible variable orderings"
    ELSE implies_loop(a, b, 1)

\* --------------------------------------------------------------- parser.hpp
\* LinearExpr: coeffs[MaxVars] indexed by variable id, and a constant
VarIds == 0..(MaxVars - 1)
ZeroExpr == [coeffs |-> [i \in VarIds |-> Zero], constant |-> Zero]

add_expr(a, b) ==
    [coeffs |-> [i \in VarIds |-> RAdd(a.coeffs[i], b.coeffs[i])],
     constant |-> RAdd(a.constant, b.constant)]

negate_expr(a) ==
    [coeffs |-> [i \in VarIds |-> RNeg(a.coeffs[i])],
     constant |-> RNeg(a.constant)]

sub_expr(a, b) == add_expr(a, negate_expr(b))

scale_expr(a, factor) ==
    [coeffs |-> [i \in VarIds |-> RMul(a.coeffs[i], factor)],
     constant |-> RMul(a.constant, factor)]

is_constant_expr(a) == \A i \in VarIds : RIsZero(a.coeffs[i])

\* ParseResult: the sequence of clauses
EmptyDnf == [clauses |-> <<>>]
is_conjunctive(r) == Len(r.clauses) = 1

\* ParseResult::system
system(r) ==
    IF Len(r.clauses) # 1
    THEN Err("ParseResult::system(): not a conjunctive formula")
    ELSE r.clauses[1]

\* ParseResult::add_clause
add_clause(r, sys) ==
    IF Len(r.clauses) >= MaxClauses
    THEN Err("DNF clause limit exceeded")
    ELSE [r EXCEPT !.clauses = Append(r.clauses, sys)]

single_clause(sys) == [clauses |-> <<sys>>]

\* mutant of merge_systems: b's inequalities come first
merge_systems_swapped(a, b) ==
    LET r == IF Len(a.vars) > Len(b.vars) THEN [b EXCEPT !.vars = a.vars] ELSE b
    IN  add_all(r, a.ineqs, 1)

merge_systems(a, b) ==
    LET r == IF Len(b.vars) > Len(a.vars) THEN [a EXCEPT !.vars = b.vars] ELSE a
    IN  add_all(r, b.ineqs, 1)

\* r.clauses[r.clause_count++] = x for every x of items, with the capacity
\* test the loops of conjoin and disjoin make before each store
RECURSIVE store_all(_, _, _)
store_all(r, items, i) ==
    IF IsErr(r) \/ i > Len(items) THEN r
    ELSE IF Len(r.clauses) >= MaxClauses THEN Err("DNF clause limit exceeded")
    ELSE IF IsErr(items[i]) THEN items[i]
    ELSE store_all([r EXCEPT !.clauses = Append(r.clauses, items[i])], items, i + 1)

conjoin(left, right) ==
    LET nl == Len(left.clauses)
        nr == Len(right.clauses)
        pairs == [k \in 1..(nl * nr) |->
                    merge_systems(left.clauses[((k - 1) \div nr) + 1],
                                  right.clauses[((k - 1) % nr) + 1])]
    IN  store_all(EmptyDnf, pairs, 1)

disjoin(left, right) ==
    store_all(store_all(EmptyDnf, left.clauses, 1), right.clauses, 1)

\* the term loop of to_inequality from variable id i on
RECURSIVE diff_terms(_, _, _)
diff_terms(ineq, diff, i) ==
    IF IsErr(ineq) \/ i >= MaxVars THEN ineq
    ELSE IF RIsZero(diff.coeffs[i]) THEN diff_terms(ineq, diff, i + 1)
    ELSE IF Len(ineq.terms) >= MaxTermsPerIneq
    THEN Err("too many variable terms in inequality")
    ELSE diff_terms([ineq EXCEPT
                       !.terms = Append(ineq.terms, LinearTerm(i, diff.coeffs[i]))],
                    diff, i + 1)

\* mutant of to_inequality: the strict flag is not passed on
to_inequality_nonstrict(lhs, rhs, strict) ==
    LET diff == sub_expr(lhs, rhs)
    IN  diff_terms([terms |-> <<>>, constant |-> diff.constant, strict |-> FALSE],
                   diff, 0)

to_inequality(lhs, rhs, strict) ==
    LET diff == sub_expr(lhs, rhs)
    IN  diff_terms([terms |-> <<>>, constant |-> diff.constant, strict |-> strict],
                   diff, 0)

\* Expression nodes (refmacro::NodeView): [tag, payload] for "lit",
\* [tag, name] for "var", [tag, c0] and [tag, c0, c1] for the operators
Lit(c) == [tag |-> "lit", payload |-> c]
Var(n) == [tag |-> "var", name |-> n]
Node1(t, a) == [tag |-> t, c0 |-> a]
Node2(t, a, b) == [tag |-> t, c0 |-> a, c1 |-> b]

\* parse_arith: [e |-> LinearExpr, vars |-> the registry afterwards], or an error
RECURSIVE parse_arith(_, _)
parse_arith(node, vars) ==
    LET t == node.tag IN
    IF t = "lit" THEN [e |-> [ZeroExpr EXCEPT !.constant = node.payload], vars |-> vars]
    ELSE IF t = "var" THEN
      LET fa == find_or_add(vars, node.name, TRUE)
      IN  IF IsErr(fa) THEN fa
          ELSE [e |-> [ZeroExpr EXCEPT !.coeffs[fa.id] = One], vars |-> fa.vars]
    ELSE IF t = "neg" THEN
      LET negated(a) ==
            IF IsErr(a) THEN a ELSE [e |-> negate_expr(a.e), vars |-> a.vars]
      IN  negated(parse_arith(node.c0, vars))
    ELSE IF t \in {"add", "sub", "mul", "div"} THEN
      LET combine(a, b) ==
            IF IsErr(b) THEN b
            ELSE IF t = "add" THEN [e |-> add_expr(a.e, b.e), vars |-> b.vars]
            ELSE IF t = "sub" THEN [e |-> sub_expr(a.e, b.e), vars |-> b.vars]
            ELSE IF t = "mul" THEN
                   IF is_constant_expr(a.e)
                   THEN [e |-> scale_expr(b.e, a.e.constant), vars |-> b.vars]
                   ELSE IF is_constant_expr(b.e)
                   THEN [e |-> scale_expr(a.e, b.e.constant), vars |-> b.vars]
                   ELSE Err("non-linear: variable * variable")
            ELSE IF ~is_constant_expr(b.e)
            THEN Err("non-linear: division by variable")
            ELSE IF RIsZero(b.e.constant) THEN Err("division by zero")
            ELSE [e |-> scale_expr(a.e, RDiv(One, b.e.constant)), vars |-> b.vars]
          right(a) ==
            combine(a, IF IsErr(a) THEN a ELSE parse_arith(node.c1, a.vars))
      IN  right(parse_arith(node.c0, vars))
    ELSE Err("unsupported node in arithmetic expression")

\* a clause holding the given inequalities under registry vars
clause_of(vars, ineqs) == add_all([ineqs |-> <<>>, vars |-> vars], ineqs, 1)

\* parse_comparison: [res |-> ParseResult, vars |-> registry], or an error
parse_comparison(node, vars, negate) ==
    LET t == node.tag
        compare(l, r) ==
          IF IsErr(r) THEN r
          ELSE
            LET lhs == l.e
                rhs == r.e
                vs == r.vars
                out(clauses) ==
                  IF \E i \in 1..Len(clauses) : IsErr(clauses[i])
                  THEN clauses[CHOOSE i \in 1..Len(clauses) :
                                 /\ IsErr(clauses[i])
                                 /\ \A j \in 1..(i - 1) : ~IsErr(clauses[j])]
                  ELSE [res |-> [clauses |-> clauses], vars |-> vs]
                one(q) == IF IsErr(q) THEN q ELSE clause_of(vs, <<q>>)
            IN
            IF t = "eq" /\ ~negate THEN
              LET ineq1 == to_inequality(lhs, rhs, FALSE)
                  ineq2 == to_inequality(rhs, lhs, FALSE)
              IN  IF IsErr(ineq1) THEN ineq1
                  ELSE IF IsErr(ineq2) THEN ineq2
                  ELSE out(<<clause_of(vs, <<ineq1, ineq2>>)>>)
            ELSE IF t = "eq" /\ negate THEN
              LET ineq_lt == to_inequality(rhs, lhs, TRUE)
                  ineq_gt == to_inequality(lhs, rhs, TRUE)
              IN  IF IsErr(ineq_lt) THEN ineq_lt
                  ELSE IF IsErr(ineq_gt) THEN ineq_gt
                  ELSE out(<<one(ineq_lt), one(ineq_gt)>>)
            ELSE IF (t = "gt" /\ ~negate) \/ (t = "le" /\ negate)
            THEN out(<<one(to_inequality(lhs, rhs, TRUE))>>)
            ELSE IF (t = "ge" /\ ~negate) \/ (t = "lt" /\ negate)
            THEN out(<<one(to_inequality(lhs, rhs, FALSE))>>)
            ELSE IF (t = "lt" /\ ~negate) \/ (t = "ge" /\ negate)
            THEN out(<<one(to_inequality(rhs, lhs, TRUE))>>)
            ELSE IF (t = "le" /\ ~negate) \/ (t = "gt" /\ negate)
            THEN out(<<one(to_inequality(rhs, lhs, FALSE))>>)
            ELSE Err("unsupported comparison tag")
        right(l) == compare(l, IF IsErr(l) THEN l ELSE parse_arith(node.c1, l.vars))
    IN  right(parse_arith(node.c0, vars))

ComparisonTags == {"gt", "ge", "lt", "le", "eq"}

\* parse_formula (negated = FALSE) and parse_negated (negated = TRUE) share
\* the shape "parse both children, left first, then combine"
RECURSIVE parse_formula(_, _), parse_negated(_, _)
parse_formula(node, vars) ==
    LET t == node.tag IN
    IF t \in ComparisonTags THEN parse_comparison(node, vars, FALSE)
    ELSE IF t \in {"land", "lor"} THEN
      LET wrap(r, vs) == IF IsErr(r) THEN r ELSE [res |-> r, vars |-> vs]
          combine(left, right) ==
            IF IsErr(right) THEN right
            ELSE wrap(IF t = "land" THEN conjoin(left.res, right.res)
                      ELSE disjoin(left.res, right.res),
                      right.vars)
          second(left) ==
            combine(left, IF IsErr(left) THEN left
                          ELSE parse_formula(node.c1, left.vars))
      IN  second(parse_formula(node.c0, vars))
    ELSE IF t = "lnot" THEN parse_negated(node.c0, vars)
    ELSE Err("unsupported node in refinement predicate")

\* mutant of parse_negated: the connective is kept instead of swapped
parse_negated_same_connective(node, vars) ==
    LET t == node.tag IN
    IF t \in ComparisonTags THEN parse_comparison(node, vars, TRUE)
    ELSE IF t \in {"land", "lor"} THEN
      LET wrap(r, vs) == IF IsErr(r) THEN r ELSE [res |-> r, vars |-> vs]
          combine(left, right) ==
            IF IsErr(right) THEN right
            ELSE wrap(IF t = "land" THEN conjoin(left.res, right.res)
                      ELSE disjoin(left.res, right.res),
                      right.vars)
          second(left) ==
            combine(left, IF IsErr(left) THEN left
                          ELSE parse_negated(node.c1, left.vars))
      IN  second(parse_negated(node.c0, vars))
    ELSE IF t = "lnot" THEN parse_formula(node.c0, vars)
    ELSE Err("unsupported node in negated formula")

parse_negated(node, vars) ==
    LET t == node.tag IN
    IF t \in ComparisonTags THEN parse_comparison(node, vars, TRUE)
    ELSE IF t \in {"land", "lor"} THEN
      LET wrap(r, vs) == IF IsErr(r) THEN r ELSE [res |-> r, vars |-> vs]
          combine(left, right) ==
            IF IsErr(right) THEN right
            ELSE wrap(IF t = "land" THEN disjoin(left.res, right.res)
                      ELSE conjoin(left.res, right.res),
                      right.vars)
          second(left) ==
            combine(left, IF IsErr(left) THEN left
                          ELSE parse_negated(node.c1, left.vars))
      IN  second(parse_negated(node.c0, vars))
    ELSE IF t = "lnot" THEN parse_formula(node.c0, vars)
    ELSE Err("unsupported node in negated formula")

\* mutant of propagate_vars: the clauses keep the registry they were built with
propagate_vars_none(res, vars) == res

\* the propagation loop of parse_to_system: result.clauses[i].vars = vars
propagate_vars(res, vars) ==
    [clauses |-> [i \in 1..Len(res.clauses) |->
                    [res.clauses[i] EXCEPT !.vars = vars]]]

\* parse_to_system(formula, vars): the overload taking the caller's registry
\* by reference; [res, vars], or an error
parse_to_system_vars(formula, vars) ==
    LET propagate(r) ==
          IF IsErr(r) THEN r
          ELSE [res |-> propagate_vars(r.res, r.vars), vars |-> r.vars]
    IN  propagate(parse_formula(formula, vars))

\* parse_to_system(formula): a ParseResult, or an error
parse_to_system(formula) ==
    LET result_of(r) == IF IsErr(r) THEN r ELSE r.res
    IN  result_of(parse_to_system_vars(formula, EmptyVarInfo))

\* --------------------------------------- disjunction.hpp, DNF-level operations
\* the loop of remove_unsat_clauses from clause i on; a throw of fm_is_unsat
\* ends the call
RECURSIVE remove_unsat_from(_, _)
remove_unsat_from(result, i) ==
    IF i > Len(result.clauses) THEN [clauses |-> <<>>]
    ELSE
      LET keep(r) == IF IsErr(r) THEN r
                     ELSE [clauses |-> <<result.clauses[i]>> \o r.clauses]
          step(u) == IF u = "true" THEN remove_unsat_from(result, i + 1)
                     ELSE IF u = "false" THEN keep(remove_unsat_from(result, i + 1))
                     ELSE Err(u)
      IN  step(fm_is_unsat(result.clauses[i]))

remove_unsat_clauses(result) == remove_unsat_from(result, 1)

\* mutant of subsume_inner: the wider clause is dropped (C_i implies C_j)
RECURSIVE subsume_inner_wide(_, _, _, _)
subsume_inner_wide(result, sub, i, j) ==
    IF j > Len(result.clauses) THEN sub
    ELSE IF i = j \/ j \in sub.flags THEN subsume_inner_wide(result, sub, i, j + 1)
    ELSE
      LET step(u) ==
            IF u = "true"
            THEN subsume_inner_wide(result, [flags |-> sub.flags \cup {j}], i, j + 1)
            ELSE IF u = "false" THEN subsume_inner_wide(result, sub, i, j + 1)
            ELSE Err(u)
      IN  step(clause_implies(result.clauses[i], result.clauses[j]))

\* the inner loop of remove_subsumed_clauses for a fixed i, from j on;
\* sub.flags is the set of positions whose subsumed[] flag is set
RECURSIVE subsume_inner(_, _, _, _)
subsume_inner(result, sub, i, j) ==
    IF j > Len(result.clauses) THEN sub
    ELSE IF i = j \/ j \in sub.flags THEN subsume_inner(result, sub, i, j + 1)
    ELSE
      LET step(u) ==
            IF u = "true"
            THEN subsume_inner(result, [flags |-> sub.flags \cup {j}], i, j + 1)
            ELSE IF u = "false" THEN subsume_inner(result, sub, i, j + 1)
            ELSE Err(u)
      IN  step(clause_implies(result.clauses[j], result.clauses[i]))

\* the outer loop of remove_subsumed_clauses from i on
RECURSIVE subsume_outer(_, _, _)
subsume_outer(result, sub, i) ==
    IF i > Len(result.clauses) THEN sub
    ELSE IF i \in sub.flags THEN subsume_outer(result, sub, i + 1)
    ELSE
      LET next(s) == IF IsErr(s) THEN s ELSE subsume_outer(result, s, i + 1)
      IN  next(subsume_inner(result, sub, i, 1))

\* the clauses at the positions of keep, in their original order
RECURSIVE ClausesAt(_, _, _)
ClausesAt(clauses, keep, i) ==
    IF i > Len(clauses) THEN <<>>
    ELSE (IF i \in keep THEN <<clauses[i]>> ELSE <<>>) \o ClausesAt(clauses, keep, i + 1)

remove_subsumed_clauses(result) ==
    LET copy(sub) ==
          IF IsErr(sub) THEN sub
          ELSE [clauses |-> ClausesAt(result.clauses,
                                      (1..Len(result.clauses)) \ sub.flags, 1)]
    IN  copy(subsume_outer(result, [flags |-> {}], 1))

simplify_dnf(result) ==
    LET subsumption(cleaned) ==
          IF IsErr(cleaned) THEN cleaned ELSE remove_subsumed_clauses(cleaned)
    IN  subsumption(remove_unsat_clauses(result))

\* --------------------------------------------------------------- solver.hpp
is_unsat_sys(sys) == fm_is_unsat(sys)

Not(v) == IF v = "true" THEN "false" ELSE IF v = "false" THEN "true" ELSE v

is_sat_sys(sys) == Not(is_unsat_sys(sys))

\* is_unsat(ParseResult): the loop from clause i on
RECURSIVE is_unsat_loop(_, _)
is_unsat_loop(result, i) ==
    IF i > Len(result.clauses) THEN "true"
    ELSE LET step(u) == IF u = "true" THEN is_unsat_loop(result, i + 1)
                        ELSE IF u = "false" THEN "false"
                        ELSE u
         IN  step(fm_is_unsat(result.clauses[i]))

\* mutant of is_unsat: only the first clause is consulted
is_unsat_first(result) ==
    IF Len(result.clauses) = 0 THEN "true" ELSE fm_is_unsat(result.clauses[1])

is_unsat(result) == is_unsat_loop(result, 1)

is_sat(result) == Not(is_unsat(result))

\* mutant of all_clauses_imply: only the first premise clause is tested
all_clauses_imply_first(p_dnf, q_sys, i) ==
    IF Len(p_dnf.clauses) = 0 THEN "true"
    ELSE clause_implies(p_dnf.clauses[1], q_sys)

\* the conjunctive branch of is_valid_implication_impl from premise clause i on
RECURSIVE all_clauses_imply(_, _, _)
all_clauses_imply(p_dnf, q_sys, i) ==
    IF i > Len(p_dnf.clauses) THEN "true"
    ELSE LET step(c) == IF c = "true" THEN all_clauses_imply(p_dnf, q_sys, i + 1)
                        ELSE IF c = "false" THEN "false"
                        ELSE c
         IN  step(clause_implies(p_dnf.clauses[i], q_sys))

\* mutant of brute_force: the conclusion is not negated
brute_force_unnegated(premise, conclusion, vars) ==
    LET combined == Node2("land", premise, conclusion)
        verdict(result) ==
          IF IsErr(result) THEN result.error ELSE is_unsat(result.res)
    IN  verdict(parse_to_system_vars(combined, vars))

\* the brute-force branch of is_valid_implication_impl
brute_force(premise, conclusion, vars) ==
    LET combined == Node2("land", premise, Node1("lnot", conclusion))
        verdict(result) ==
          IF IsErr(result) THEN result.error ELSE is_unsat(result.res)
    IN  verdict(parse_to_system_vars(combined, vars))

is_valid_implication_impl(premise, conclusion, vars) ==
    LET decide(p, q) ==
          IF IsErr(q) THEN q.error
          ELSE IF is_conjunctive(q.res)
          THEN all_clauses_imply(propagate_vars(p.res, q.vars), system(q.res), 1)
          ELSE brute_force(premise, conclusion, q.vars)
        second(p) ==
          decide(p, IF IsErr(p) THEN p ELSE parse_to_system_vars(conclusion, p.vars))
    IN  second(parse_to_system_vars(premise, vars))

is_valid_implication(premise, conclusion) ==
    is_valid_implication_impl(premise, conclusion, EmptyVarInfo)

is_valid(formula) ==
    LET verdict(result) == IF IsErr(result) THEN result.error ELSE is_unsat(result)
    IN  verdict(parse_to_system(Node1("lnot", formula)))

\* ==================================================================== state
\* pc         position of the caller: which call has run
\* sys        the InequalitySystem the caller builds (clause A of a query)
\* sysB       the second InequalitySystem of a two-system query (clause B)
\* work, v    the local copy `sys` and the loop counter `v` of fm_is_unsat
\* ineq       a LinearInequality handed to an inequality-level function
\* premise, conclusion   the Expression trees of a formula-level query
\* dnf        a ParseResult
\* result     what the last call returned
VARIABLES pc, sys, sysB, work, v, ineq, premise, conclusion, dnf, result

vars == <<pc, sys, sysB, work, v, ineq, premise, conclusion, dnf, result>>

NoIneq == [terms |-> <<>>, constant |-> Zero, strict |-> FALSE]
NoExpr == Lit(Zero)

\* ------------------------------------------------------------ model bounds
\* constants of the generated inequalities and formulas range over
\* -MaxConst..MaxConst
MaxConst == 1
\* assignments tried by direct substitution: multiples of 1/2 in
\* -GridMax..GridMax (integers only for an integer-domain variable)
GridMax == 2

Names == <<"x", "y">>

\* the registries a caller can build by find_or_add("x", _), find_or_add("y", _)
Registries ==
    {<<[name |-> "x", is_integer |-> i]>> : i \in BOOLEAN}
    \cup {<<[name |-> "x", is_integer |-> i], [name |-> "y", is_integer |-> j]>> :
            i \in BOOLEAN, j \in BOOLEAN}

CoeffVals == {R(-1), R(1)}
ConstVals == {R(k) : k \in (-MaxConst)..MaxConst}

\* normalized inequalities over the first n variable ids: terms in id order,
\* one term per variable, no zero coefficient (what to_inequality emits)
TermChoices(n) ==
    IF n = 1 THEN {<<>>} \cup {<<LinearTerm(0, a)>> : a \in CoeffVals}
    ELSE {<<>>} \cup {<<LinearTerm(0, a)>> : a \in CoeffVals}
         \cup {<<LinearTerm(1, b)>> : b \in CoeffVals}
         \cup {<<LinearTerm(0, a), LinearTerm(1, b)>> : a \in CoeffVals, b \in CoeffVals}

Ineqs(n) ==
    {[terms |-> ts, constant |-> c, strict |-> s] :
        ts \in TermChoices(n), c \in ConstVals, s \in BOOLEAN}

\* -------------------------------------------------- direct substitution
Halves == {Rat(k, 2) : k \in (-2 * GridMax)..(2 * GridMax)}
Domain(is_int) == IF is_int THEN {q \in Halves : q[2] = 1} ELSE Halves

\* assignments respecting each variable's domain flag: id -> value
Assignments(vs) ==
    IF Len(vs) = 0 THEN {<<>>}
    ELSE IF Len(vs) = 1 THEN {<<a>> : a \in Domain(vs[1].is_integer)}
    ELSE {<<a, b>> : a \in Domain(vs[1].is_integer), b \in Domain(vs[2].is_integer)}

RECURSIVE SumTerms(_, _, _)
SumTerms(ts, asg, i) ==
    IF i > Len(ts) THEN Zero
    ELSE RAdd(RMul(ts[i].coeff, asg[ts[i].var_id + 1]), SumTerms(ts, asg, i + 1))

\* sum(terms) + constant OP 0 under the assignment
Holds(q, asg) ==
    LET val == RAdd(SumTerms(q.terms, asg, 1), q.constant)
    IN  IF q.strict THEN RPos(val) ELSE ~RNegative(val)

Satisfies(s, asg) == \A i \in 1..Len(s.ineqs) : Holds(s.ineqs[i], asg)

HasSolution(s) == \E asg \in Assignments(s.vars) : Satisfies(s, asg)

\* ========================================================= SpecFM: one system
\* The caller of types.hpp:84-86 registers its variables, chains up to two
\* add() calls (s, s.add(q1), s.add(q1).add(q2)) and hands the system to
\* fm_is_unsat, whose loop runs one eliminate_variable per step.
InitFM ==
    /\ pc = "s0"
    /\ sys \in {[ineqs |-> <<>>, vars |-> r] : r \in Registries}
    /\ sysB = EmptySystem
    /\ work = EmptySystem
    /\ v = 0
    /\ ineq = NoIneq
    /\ premise = NoExpr
    /\ conclusion = NoExpr
    /\ dnf = EmptyDnf
    /\ result = "none"

\* sys = sys.add(q)
Add(q) ==
    /\ pc \in {"s0", "s1"}
    /\ pc' = IF pc = "s0" THEN "s1" ELSE "s2"
    /\ sys' = add(sys, q)
    /\ UNCHANGED <<sysB, work, v, ineq, premise, conclusion, dnf, result>>

\* entry of fm_is_unsat(sys): the by-value copy
CallFm ==
    /\ pc \in {"s0", "s1", "s2"}
    /\ pc' = "elim"
    /\ work' = sys
    /\ v' = 0
    /\ UNCHANGED <<sys, sysB, ineq, premise, conclusion, dnf, result>>

\* one iteration of the loop of fm_is_unsat
Eliminate ==
    /\ pc = "elim"
    /\ v < Len(work.vars)
    /\ LET next == eliminate_variable(work, v)
       IN  IF IsErr(next)
           THEN /\ pc' = "done"
                /\ result' = next.error
                /\ UNCHANGED <<work, v>>
           ELSE /\ work' = next
                /\ v' = v + 1
                /\ UNCHANGED <<pc, result>>
    /\ UNCHANGED <<sys, sysB, ineq, premise, conclusion, dnf>>

\* loop exit of fm_is_unsat: return has_contradiction(sys)
Finish ==
    /\ pc = "elim"
    /\ v >= Len(work.vars)
    /\ pc' = "done"
    /\ result' = has_contradiction(work)
    /\ UNCHANGED <<sys, sysB, work, v, ineq, premise, conclusion, dnf>>

NextFM ==
    \/ \E q \in Ineqs(Len(sys.vars)) : Add(q)
    \/ CallFm
    \/ Eliminate
    \/ Finish

SpecFM == InitFM /\ [][NextFM]_vars

\* C1: soundness of elimination -- a system with a satisfying assignment that
\* respects each variable's domain is never reported UNSAT by fm_is_unsat.
C1_SoundElimination ==
    (pc = "done" /\ HasSolution(sys)) => result # "true"

\* C6: domain-sensitive tightening -- x > a /\ x < b is reported UNSAT for an
\* integer x exactly when b - a <= 1 and for a real x exactly when b <= a;
\* the bounds are rounded (to x >= a + 1, x <= b - 1) only when x is flagged
\* integer, otherwise they are combined as they are.
IsOpenInterval(s) ==
    /\ Len(s.ineqs) = 2
    /\ s.ineqs[1].terms = <<LinearTerm(0, R(1))>>
    /\ s.ineqs[1].strict
    /\ s.ineqs[2].terms = <<LinearTerm(0, R(-1))>>
    /\ s.ineqs[2].strict

IntervalA(s) == -(s.ineqs[1].constant[1])
IntervalB(s) == s.ineqs[2].constant[1]
C6_WitnessReal ==
    /\ pc = "done"
    /\ IsOpenInterval(sys)
    /\ ~sys.vars[1].is_integer
    /\ IntervalB(sys) - IntervalA(sys) = 1
    /\ result = "false"

\* ================================================ SpecIneq: one inequality
\* The caller holds an inequality and applies negate_inequality to it and
\* then to what it got back.
IneqCoeffVals == {R(-2), R(-1), Rat(-1, 2), Rat(1, 2), R(1), R(2)}
IneqConstVals == {Rat(k, 2) : k \in (-2 * MaxConst)..(2 * MaxConst)}

IneqTermChoices ==
    {<<>>} \cup {<<LinearTerm(0, a)>> : a \in IneqCoeffVals}
    \cup {<<LinearTerm(1, b)>> : b \in IneqCoeffVals}
    \cup {<<LinearTerm(0, a), LinearTerm(1, b)>> :
            a \in IneqCoeffVals, b \in IneqCoeffVals}

IneqInputs ==
    {[terms |-> ts, constant |-> c, strict |-> s] :
        ts \in IneqTermChoices, c \in IneqConstVals, s \in BOOLEAN}

InitIneq ==
    /\ pc = "i0"
    /\ ineq \in IneqInputs
    /\ sys = EmptySystem
    /\ sysB = EmptySystem
    /\ work = EmptySystem
    /\ v = 0
    /\ premise = NoExpr
    /\ conclusion = NoExpr
    /\ dnf = EmptyDnf
    /\ result = NoIneq

\* result = negate_inequality(ineq)
Negate ==
    /\ pc = "i0"
    /\ pc' = "i1"
    /\ result' = negate_inequality(ineq)
    /\ UNCHANGED <<sys, sysB, work, v, ineq, premise, conclusion, dnf>>

\* result = negate_inequality(result)
NegateAgain ==
    /\ pc = "i1"
    /\ pc' = "i2"
    /\ result' = negate_inequality(result)
    /\ UNCHANGED <<sys, sysB, work, v, ineq, premise, conclusion, dnf>>

NextIneq ==
    \/ Negate
    \/ NegateAgain

SpecIneq == InitIneq /\ [][NextIneq]_vars

\* C10: negation round trip -- negating twice gives the inequality back, and
\* one negation flips the sign of every coefficient and of the constant and
\* toggles strictness.
C10_NegationRoundTrip ==
    /\ pc = "i2" => result = ineq
    /\ pc = "i1" =>
         /\ Len(result.terms) = Len(ineq.terms)
         /\ \A i \in 1..Len(ineq.terms) :
              /\ result.terms[i].var_id = ineq.terms[i].var_id
              /\ RIsZero(RAdd(result.terms[i].coeff, ineq.terms[i].coeff))
         /\ RIsZero(RAdd(result.constant, ineq.constant))
         /\ result.strict # ineq.strict

C10_Witness ==
    /\ pc = "i2"
    /\ Len(ineq.terms) = 2
    /\ ~ineq.strict
    /\ ~RIsZero(ineq.constant)
    /\ result = ineq

\* ============================================ SpecClause: clause_implies(A, B)
\* The caller builds two clauses over one registry of two variables, each with
\* at most one add(), and calls clause_implies.
InitClause ==
    /\ pc = "a0"
    /\ sys \in {[ineqs |-> <<>>, vars |-> r] : r \in {q \in Registries : Len(q) = 2}}
    /\ sysB = [ineqs |-> <<>>, vars |-> sys.vars]
    /\ work = EmptySystem
    /\ v = 0
    /\ ineq = NoIneq
    /\ premise = NoExpr
    /\ conclusion = NoExpr
    /\ dnf = EmptyDnf
    /\ result = "none"

\* a = a.add(q)
AddA(q) ==
    /\ pc = "a0"
    /\ pc' = "b0"
    /\ sys' = add(sys, q)
    /\ UNCHANGED <<sysB, work, v, ineq, premise, conclusion, dnf, result>>

\* b = b.add(q)
AddB(q) ==
    /\ pc \in {"a0", "b0"}
    /\ pc' = "b1"
    /\ sysB' = add(sysB, q)
    /\ UNCHANGED <<sys, work, v, ineq, premise, conclusion, dnf, result>>

\* result = clause_implies(a, b)
CallClauseImplies ==
    /\ pc \in {"a0", "b0", "b1"}
    /\ pc' = "done"
    /\ result' = clause_implies(sys, sysB)
    /\ UNCHANGED <<sys, sysB, work, v, ineq, premise, conclusion, dnf>>

NextClause ==
    \/ \E q \in Ineqs(2) : AddA(q)
    \/ \E q \in Ineqs(2) : AddB(q)
    \/ CallClauseImplies

SpecClause == InitClause /\ [][NextClause]_vars

\* C2: a positive implication verdict is sound -- when clause_implies(A, B)
\* returns true, every assignment that respects the domain flags and
\* satisfies A also satisfies B.
C2_PositiveVerdictSound ==
    (pc = "done" /\ result = "true") =>
        \A asg \in Assignments(sys.vars) :
            Satisfies(sys, asg) => Satisfies(sysB, asg)

\* ===================================== formula-level queries (solver.hpp API)
\* literals of the generated formulas range over -MaxLit..MaxLit
MaxLit == 1

X == Var("x")
Y == Var("y")

\* x OP k
AtomsX ==
    {Node2(t, X, Lit(R(k))) : t \in ComparisonTags, k \in (-MaxLit)..MaxLit}

Conj2(A, B) == {Node2("land", a, b) : a \in A, b \in B}
Disj2(A, B) == {Node2("lor", a, b) : a \in A, b \in B}
Neg(A) == {Node1("lnot", a) : a \in A}

\* result = is_valid_implication(premise, conclusion)
CallImplication ==
    /\ pc = "q0"
    /\ pc' = "done"
    /\ result' = is_valid_implication(premise, conclusion)
    /\ UNCHANGED <<sys, sysB, work, v, ineq, premise, conclusion, dnf>>

\* ======================================= SpecInterval: [a, b] implies [c, d]
\* interval end points range over -MaxEndpoint..MaxEndpoint
MaxEndpoint == 2

\* x >= lo && x <= hi
Interval(lo, hi) ==
    Node2("land", Node2("ge", X, Lit(R(lo))), Node2("le", X, Lit(R(hi))))

EmptyRest ==
    /\ sys = EmptySystem
    /\ sysB = EmptySystem
    /\ work = EmptySystem
    /\ v = 0
    /\ ineq = NoIneq
    /\ dnf = EmptyDnf
    /\ result = "none"

InitInterval ==
    /\ pc = "q0"
    /\ \E a, b \in (-MaxEndpoint)..MaxEndpoint : premise = Interval(a, b)
    /\ \E c, d \in (-MaxEndpoint)..MaxEndpoint : conclusion = Interval(c, d)
    /\ EmptyRest

SpecInterval == InitInterval /\ [][CallImplication]_vars

\* the end points of Interval(lo, hi)
Lo(f) == f.c0.c1.payload[1]
Hi(f) == f.c1.c1.payload[1]

\* C5: interval containment -- over an integer x, [a, b] implies [c, d]
\* exactly when [a, b] is empty (a > b) or c <= a and b <= d.
C5_IntervalContainment ==
    pc = "done" =>
        result = Verdict(\/ Lo(premise) > Hi(premise)
                         \/ /\ Lo(conclusion) <= Lo(premise)
                            /\ Hi(premise) <= Hi(conclusion))

\* [1, 2] implies [0, 2]: a non-empty premise strictly inside on one side
C5_Witness ==
    /\ pc = "done"
    /\ premise = Interval(1, 2)
    /\ conclusion = Interval(0, 2)
    /\ result = "true"

\* [0, 2] does not imply [1, 2]
C5_WitnessFalse ==
    /\ pc = "done"
    /\ premise = Interval(0, 2)
    /\ conclusion = Interval(1, 2)
    /\ result = "false"

\* ============================================ SpecDnf: is_unsat / is_sat (DNF)
XInt == <<[name |-> "x", is_integer |-> TRUE]>>
XReal == <<[name |-> "x", is_integer |-> FALSE]>>

\* x - a OP 0 and -x + b OP 0
LowerBound(a, strict) == make(<<LinearTerm(0, One)>>, R(-a), strict)
UpperBound(b, strict) == make(<<LinearTerm(0, R(-1))>>, R(b), strict)

\* the clauses a caller hands to add_clause: one interval over x each
DnfClauses ==
    {clause_of(vs, <<LowerBound(a, s1), UpperBound(b, s2)>>) :
        vs \in {XInt, XReal}, a \in 0..MaxLit, b \in 0..MaxLit,
        s1 \in BOOLEAN, s2 \in BOOLEAN}

InitDnf ==
    /\ pc = "d0"
    /\ premise = NoExpr
    /\ conclusion = NoExpr
    /\ EmptyRest

\* dnf.add_clause(c), at most twice
AddClause(c) ==
    /\ pc \in {"d0", "d1"}
    /\ pc' = IF pc = "d0" THEN "d1" ELSE "d2"
    /\ dnf' = add_clause(dnf, c)
    /\ UNCHANGED <<sys, sysB, work, v, ineq, premise, conclusion, result>>

\* result = is_unsat(dnf)
CallIsUnsat ==
    /\ pc \in {"d0", "d1", "d2"}
    /\ pc' = "unsat"
    /\ result' = is_unsat(dnf)
    /\ UNCHANGED <<sys, sysB, work, v, ineq, premise, conclusion, dnf>>

\* result = is_sat(dnf)
CallIsSat ==
    /\ pc \in {"d0", "d1", "d2"}
    /\ pc' = "sat"
    /\ result' = is_sat(dnf)
    /\ UNCHANGED <<sys, sysB, work, v, ineq, premise, conclusion, dnf>>

NextDnf ==
    \/ \E c \in DnfClauses : AddClause(c)
    \/ CallIsUnsat
    \/ CallIsSat

SpecDnf == InitDnf /\ [][NextDnf]_vars

AllClausesUnsat(r) == \A i \in 1..Len(r.clauses) : fm_is_unsat(r.clauses[i]) = "true"

\* C7: is_unsat on a DNF is true exactly when fm_is_unsat is true for every
\* clause (so a DNF with no clause is UNSAT), and is_sat is its negation.
C7_DnfUnsatIffAllClauses ==
    /\ pc = "unsat" => result = Verdict(AllClausesUnsat(dnf))
    /\ pc = "sat" => result = Verdict(~AllClausesUnsat(dnf))

\* two clauses, the first UNSAT and the second SAT: the DNF is SAT
C7_Witness ==
    /\ pc = "unsat"
    /\ Len(dnf.clauses) = 2
    /\ fm_is_unsat(dnf.clauses[1]) = "true"
    /\ fm_is_unsat(dnf.clauses[2]) = "false"
    /\ result = "false"

\* the empty DNF is UNSAT
C7_WitnessEmpty == pc = "unsat" /\ dnf = EmptyDnf /\ result = "true"

\* ================================================= meaning of a formula tree
\* an environment gives every variable name a value on the grid
Envs == [{"x", "y"} -> Halves]

RECURSIVE EvalArith(_, _)
EvalArith(node, env) ==
    LET t == node.tag IN
    IF t = "lit" THEN node.payload
    ELSE IF t = "var" THEN env[node.name]
    ELSE IF t = "neg" THEN RNeg(EvalArith(node.c0, env))
    ELSE IF t = "add" THEN RAdd(EvalArith(node.c0, env), EvalArith(node.c1, env))
    ELSE IF t = "sub" THEN RSub(EvalArith(node.c0, env), EvalArith(node.c1, env))
    ELSE IF t = "mul" THEN RMul(EvalArith(node.c0, env), EvalArith(node.c1, env))
    ELSE RDiv(EvalArith(node.c0, env), EvalArith(node.c1, env))

Compare(t, a, b) ==
    IF t = "eq" THEN a = b
    ELSE IF t = "lt" THEN RLt(a, b)
    ELSE IF t = "gt" THEN RLt(b, a)
    ELSE IF t = "le" THEN RLe(a, b)
    ELSE RLe(b, a)

RECURSIVE EvalFormula(_, _)
EvalFormula(node, env) ==
    LET t == node.tag IN
    IF t \in ComparisonTags
    THEN Compare(t, EvalArith(node.c0, env), EvalArith(node.c1, env))
    ELSE IF t = "land" THEN EvalFormula(node.c0, env) /\ EvalFormula(node.c1, env)
    ELSE IF t = "lor" THEN EvalFormula(node.c0, env) \/ EvalFormula(node.c1, env)
    ELSE ~EvalFormula(node.c0, env)

\* the environment as an assignment id -> value of the clause's registry
EnvAssignment(vs, env) == [i \in 1..Len(vs) |-> env[vs[i].name]]

\* some clause of the DNF has all of its inequalities satisfied
DnfHolds(r, env) ==
    \E i \in 1..Len(r.clauses) :
        Satisfies(r.clauses[i], EnvAssignment(r.clauses[i].vars, env))

\* ================================================== SpecParse: parse_to_system
\* linear terms over x and y; divisors and factors are powers of two, so the
\* double coefficients are exact
ArithTerms ==
    {X, Y, Node1("neg", X),
     Node2("mul", Lit(R(2)), X), Node2("mul", X, Lit(R(2))),
     Node2("div", X, Lit(R(2))),
     Node2("add", X, Y), Node2("sub", X, Y),
     Node2("sub", Node2("add", X, Y), X),
     Node2("add", Node2("mul", Lit(R(2)), X), Lit(One))}

\* t OP k
AtomsArith ==
    {Node2(t, a, Lit(R(k))) : t \in ComparisonTags, a \in ArithTerms, k \in 0..MaxLit}
\* x OP y
AtomsXY == {Node2(t, X, Y) : t \in ComparisonTags}
\* x OP 0
Atoms0 == {Node2(t, X, Lit(Zero)) : t \in ComparisonTags}
\* the operands of the nested formulas
AtomsSmall == Atoms0 \cup {Node2("ge", Node2("add", X, Y), Lit(One)), Node2("eq", X, Y)}
AtomsTiny == {Node2("gt", X, Lit(Zero)), Node2("le", Y, Lit(One)), Node2("eq", X, Y)}

ParseFormulas ==
    AtomsArith \cup AtomsXY \cup Neg(AtomsArith) \cup Neg(Neg(AtomsSmall))
    \cup Conj2(AtomsSmall, AtomsSmall) \cup Disj2(AtomsSmall, AtomsSmall)
    \cup Neg(Conj2(AtomsSmall, AtomsSmall)) \cup Neg(Disj2(AtomsSmall, AtomsSmall))
    \cup Conj2(Disj2(AtomsTiny, AtomsTiny), Disj2(AtomsTiny, AtomsTiny))
    \cup Neg(Neg(Disj2(AtomsTiny, AtomsTiny)))

InitParse ==
    /\ pc = "p0"
    /\ premise \in ParseFormulas
    /\ conclusion = NoExpr
    /\ EmptyRest

\* dnf = parse_to_system(premise)
CallParse ==
    /\ pc = "p0"
    /\ pc' = "parsed"
    /\ dnf' = parse_to_system(premise)
    /\ UNCHANGED <<sys, sysB, work, v, ineq, premise, conclusion, result>>

SpecParse == InitParse /\ [][CallParse]_vars

\* C9: the parser preserves meaning -- under every assignment the formula is
\* true if and only if some clause of parse_to_system(formula) has all of its
\* inequalities satisfied (De Morgan and double negation included).
C9_ParserPreservesMeaning ==
    pc = "parsed" =>
        /\ ~IsErr(dnf)
        /\ \A env \in Envs : EvalFormula(premise, env) <=> DnfHolds(dnf, env)

\* De Morgan: !(x > 0 && x == y) parses to the three clauses x <= 0, x < y
\* and x > y
C9_Witness ==
    /\ pc = "parsed"
    /\ premise = Node1("lnot", Node2("land", Node2("gt", X, Lit(Zero)),
                                             Node2("eq", X, Y)))
    /\ ~IsErr(dnf)
    /\ Len(dnf.clauses) = 3

\* double negation: !!(x >= 0) parses to the single clause x >= 0
C9_WitnessDoubleNegation ==
    /\ pc = "parsed"
    /\ premise = Node1("lnot", Node1("lnot", Node2("ge", X, Lit(Zero))))
    /\ dnf = parse_to_system(Node2("ge", X, Lit(Zero)))

\* ============================== SpecAgree: clause-by-clause versus brute force
AgreePremises ==
    AtomsX \cup AtomsXY
    \cup Conj2(Atoms0, Atoms0) \cup Disj2(Atoms0, Atoms0)
    \cup Disj2(Disj2(Atoms0, {Node2("lt", X, Lit(Zero))}), {Node2("eq", X, Y)})

AgreeConclusions ==
    AtomsX \cup AtomsXY \cup Neg(Atoms0)
    \cup Conj2(Atoms0, AtomsX) \cup Disj2(Atoms0, Atoms0)

InitAgree ==
    /\ pc = "q0"
    /\ premise \in AgreePremises
    /\ conclusion \in AgreeConclusions
    /\ EmptyRest

SpecAgree == InitAgree /\ [][CallImplication]_vars

\* premise && !conclusion
AndNot(p, q) == Node2("land", p, Node1("lnot", q))

\* C8: the two implication strategies agree -- is_valid_implication(P, Q)
\* returns the verdict of is_unsat(parse_to_system(P AND NOT Q)) whenever that
\* parse stays within capacity.
C8_StrategiesAgree ==
    pc = "done" =>
        \/ IsErr(parse_to_system(AndNot(premise, conclusion)))
        \/ result = is_unsat(parse_to_system(AndNot(premise, conclusion)))

\* a two-clause premise against a one-clause conclusion (clause-by-clause
\* path), refuted by the second premise clause only
C8_Witness ==
    /\ pc = "done"
    /\ premise = Node2("lor", Node2("gt", X, Lit(Zero)), Node2("lt", X, Lit(Zero)))
    /\ conclusion = Node2("ge", X, Lit(Zero))
    /\ result = "false"
    /\ ~IsErr(parse_to_system(AndNot(premise, conclusion)))

\* the clause-by-clause path answers where the brute-force parse overflows
C8_WitnessOverflow ==
    /\ pc = "done"
    /\ result \in {"true", "false"}
    /\ IsErr(parse_to_system(AndNot(premise, conclusion)))

\* ======================================= SpecRefl: is_valid_implication(P, P)
\* 2*x == 2*y + k: no integer solution when k is odd
Parity(k) ==
    Node2("eq", Node2("mul", Lit(R(2)), X),
                Node2("add", Node2("mul", Lit(R(2)), Y), Lit(R(k))))

ReflFormulas ==
    AtomsX \cup AtomsXY \cup Neg(AtomsX) \cup {Parity(1)}
    \cup Conj2(AtomsX, AtomsX) \cup Disj2(AtomsX, AtomsX \cup AtomsXY)
    \cup Neg(Conj2(AtomsX, Atoms0)) \cup Neg(Disj2(AtomsX, Atoms0))
    \cup Disj2(Disj2(Atoms0, Atoms0), AtomsX)

InitRefl ==
    /\ pc = "q0"
    /\ premise \in ReflFormulas
    /\ conclusion = premise
    /\ EmptyRest

SpecRefl == InitRefl /\ [][CallImplication]_vars

\* the number of clauses parse_formula (negated = FALSE) or parse_negated
\* (negated = TRUE) produces for the tree, capacity aside
RECURSIVE ClauseCount(_, _)
ClauseCount(node, negated) ==
    LET t == node.tag IN
    IF t \in ComparisonTags THEN (IF t = "eq" /\ negated THEN 2 ELSE 1)
    ELSE IF t = "lnot" THEN ClauseCount(node.c0, ~negated)
    ELSE IF (t = "land") = negated
    THEN ClauseCount(node.c0, negated) + ClauseCount(node.c1, negated)
    ELSE ClauseCount(node.c0, negated) * ClauseCount(node.c1, negated)

\* the conclusion is disjunctive and premise && !conclusion has more than
\* MaxClauses clauses
BruteForceOverflows(p, q) ==
    /\ ClauseCount(q, FALSE) > 1
    /\ ClauseCount(p, FALSE) * ClauseCount(q, TRUE) > MaxClauses

\* C3 as stated: is_valid_implication(P, P) returns true for every formula P.
C3_Reflexivity == pc = "done" => result = "true"

\* C3: is_valid_implication(P, P) returns true for every P unless P is
\* disjunctive and P && !P has more than MaxClauses clauses; then, and only
\* then, the call fails with "DNF clause limit exceeded".
C3_ReflexivityWithinCapacity ==
    pc = "done" =>
        result = IF BruteForceOverflows(premise, conclusion)
                 THEN "DNF clause limit exceeded"
                 ELSE "true"

\* a disjunctive P within capacity: (x == 0 || x == 1) against itself, 2 * 4
\* clauses
C3_Witness ==
    /\ pc = "done"
    /\ premise = Node2("lor", Node2("eq", X, Lit(Zero)), Node2("eq", X, Lit(One)))
    /\ conclusion = premise
    /\ result = "true"

\* a disjunctive P beyond capacity: three equalities, 3 * 8 clauses
C3_WitnessOverflow ==
    /\ pc = "done"
    /\ ClauseCount(premise, FALSE) = 3
    /\ ClauseCount(premise, TRUE) = 8
    /\ result = "DNF clause limit exceeded"

\* ================================ SpecExFalso: an unsatisfiable premise
ExFalsoPremises ==
    Conj2(AtomsX, AtomsX)
    \cup {Parity(k) : k \in (-MaxLit)..MaxLit}
    \cup Disj2({Node2("land", Node2("gt", X, Lit(R(k))), Node2("lt", X, Lit(R(k)))) :
                   k \in (-MaxLit)..MaxLit},
               {Node2("land", Node2("ge", X, Lit(One)), Node2("le", X, Lit(Zero)))})

ExFalsoConclusions ==
    Atoms0 \cup {Node2("gt", Y, Lit(Zero)), Node2("eq", X, Y)}
    \cup Disj2(Atoms0, Atoms0)
    \cup Conj2({Node2("gt", X, Lit(One))}, Atoms0)
    \cup {Node2("lor", Node2("lor", Node2("eq", X, Lit(Zero)), Node2("eq", X, Lit(One))),
                      Node2("eq", Y, Lit(Zero)))}

InitExFalso ==
    /\ pc = "q0"
    /\ premise \in ExFalsoPremises
    /\ conclusion \in ExFalsoConclusions
    /\ EmptyRest

SpecExFalso == InitExFalso /\ [][CallImplication]_vars

\* integer values for x and y that reach past every literal of the formulas
IntEnvs == [{"x", "y"} -> {R(k) : k \in (-(MaxLit + 1))..(MaxLit + 1)}]

\* no integer assignment makes the formula true.  Exact for the premises of
\* ExFalsoPremises: a satisfiable conjunction of two x OP k atoms has a
\* solution at most one past its literals, and 2*x == 2*y + k is a matter of
\* the parity of k alone.
NoIntegerSolution(f) ==
    /\ \A env \in IntEnvs : ~EvalFormula(f, env)
    /\ \A k \in (-MaxLit)..MaxLit : f = Parity(k) => k % 2 = 1

\* C4 as stated: if no assignment over the variables' domains makes P true,
\* is_valid_implication(P, Q) returns true for every Q.
C4_ExFalso ==
    (pc = "done" /\ NoIntegerSolution(premise)) => result = "true"

\* C4: if is_unsat(parse_to_system(P)) reports P UNSAT, then
\* is_valid_implication(P, Q) returns true for every Q, unless Q is
\* disjunctive and P && !Q has more than MaxClauses clauses (the call then
\* fails with "DNF clause limit exceeded").
C4_ExFalsoDetected ==
    (pc = "done" /\ is_unsat(parse_to_system(premise)) = "true") =>
        result = IF BruteForceOverflows(premise, conclusion)
                 THEN "DNF clause limit exceeded"
                 ELSE "true"

\* x > 0 && x < 1 has no integer solution, found by tightening; it implies
\* the unrelated y > 0
C4_Witness ==
    /\ pc = "done"
    /\ premise = Node2("land", Node2("gt", X, Lit(Zero)), Node2("lt", X, Lit(One)))
    /\ conclusion = Node2("gt", Y, Lit(Zero))
    /\ is_unsat(parse_to_system(premise)) = "true"
    /\ result = "true"

\* 2*x == 2*y + 1 has no integer solution and is reported SAT
C4_WitnessParity ==
    /\ pc = "done"
    /\ premise = Parity(1)
    /\ is_unsat(parse_to_system(premise)) = "false"
    /\ result = "false"

\* ============================= SpecOrder: the same system under permuted ids
\* the two-variable registries
Registries2 == {r \in Registries : Len(r) = 2}

\* inequalities a*x + b*y + c >= 0 with a in {-2, 0, 2}, b in {-1, 0, 1}, not
\* both zero
OrderIneqs ==
    {[terms |-> ts, constant |-> c, strict |-> FALSE] :
        ts \in {<<LinearTerm(0, R(a))>> : a \in {-2, 2}}
               \cup {<<LinearTerm(1, R(b))>> : b \in {-1, 1}}
               \cup {<<LinearTerm(0, R(a)), LinearTerm(1, R(b))>> :
                       a \in {-2, 2}, b \in {-1, 1}},
        c \in ConstVals}

\* the inequality with ids 0 and 1 exchanged, terms in id order
SwapIds(q) ==
    LET ts == [i \in 1..Len(q.terms) |-> [q.terms[i] EXCEPT !.var_id = 1 - @]]
    IN  [q EXCEPT !.terms = IF Len(ts) = 2 THEN <<ts[2], ts[1]>> ELSE ts]

\* the system of a caller that registered the two variables in the other order
Permuted(s) ==
    [vars |-> <<s.vars[2], s.vars[1]>>,
     ineqs |-> [i \in 1..Len(s.ineqs) |-> SwapIds(s.ineqs[i])]]

InitOrder ==
    /\ pc = "o0"
    /\ sys \in {[ineqs |-> <<>>, vars |-> r] : r \in Registries2}
    /\ sysB = EmptySystem
    /\ work = EmptySystem
    /\ v = 0
    /\ ineq = NoIneq
    /\ premise = NoExpr
    /\ conclusion = NoExpr
    /\ dnf = EmptyDnf
    /\ result = "none"

\* sys = sys.add(q), at most three times
AddOrder(q) ==
    /\ pc \in {"o0", "o1", "o2"}
    /\ pc' = IF pc = "o0" THEN "o1" ELSE IF pc = "o1" THEN "o2" ELSE "o3"
    /\ sys' = add(sys, q)
    /\ UNCHANGED <<sysB, work, v, ineq, premise, conclusion, dnf, result>>

\* result = fm_is_unsat(sysB), sysB being sys under the other registration order
CallFmPermuted ==
    /\ pc \in {"o0", "o1", "o2", "o3"}
    /\ pc' = "done"
    /\ sysB' = Permuted(sys)
    /\ result' = fm_is_unsat(Permuted(sys))
    /\ UNCHANGED <<sys, work, v, ineq, premise, conclusion, dnf>>

NextOrder ==
    \/ \E q \in OrderIneqs : AddOrder(q)
    \/ CallFmPermuted

SpecOrder == InitOrder /\ [][NextOrder]_vars

AllReal(vs) == \A i \in 1..Len(vs) : ~vs[i].is_integer

\* C11 as stated: eliminating the variables in the other order gives the same
\* verdict from fm_is_unsat, for every system.
C11_OrderIndependent == pc = "done" => result = fm_is_unsat(sys)

\* C11: for every system whose variables are all real-valued, eliminating the
\* variables in the other order gives the same verdict from fm_is_unsat.
C11_OrderIndependentReal ==
    (pc = "done" /\ AllReal(sys.vars)) => result = fm_is_unsat(sys)

\* an UNSAT verdict over two real variables that needs both eliminations:
\* no inequality of the system is a contradiction by itself
C11_Witness ==
    /\ pc = "done"
    /\ AllReal(sys.vars)
    /\ Len(sys.ineqs) = 3
    /\ \A i \in 1..3 : Len(sys.ineqs[i].terms) = 2
    /\ result = "true"
    /\ fm_is_unsat(sys) = "true"

\* ============================================ SpecRound: round_integer_bound
TargetCoeffs == {Rat(1, 2), R(1), R(2)}

InitRound ==
    /\ pc = "r0"
    /\ ineq \in IneqInputs
    /\ sys = EmptySystem
    /\ sysB = EmptySystem
    /\ work = EmptySystem
    /\ v = 0
    /\ premise = NoExpr
    /\ conclusion = NoExpr
    /\ dnf = EmptyDnf
    /\ result = NoIneq

\* result = round_integer_bound(ineq, is_lower, target_coeff)
Round(is_lower, target_coeff) ==
    /\ pc = "r0"
    /\ pc' = "rounded"
    /\ result' = round_integer_bound(ineq, is_lower, target_coeff)
    /\ UNCHANGED <<sys, sysB, work, v, ineq, premise, conclusion, dnf>>

NextRound == \E is_lower \in BOOLEAN, target_coeff \in TargetCoeffs :
                 Round(is_lower, target_coeff)

SpecRound == InitRound /\ [][NextRound]_vars

\* more than one term, and a coefficient that is not an integer
HasFractionalMultiTerm(q) ==
    /\ Len(q.terms) > 1
    /\ \E i \in 1..Len(q.terms) : q.terms[i].coeff[2] # 1

\* C12 as stated: the inequality returned by round_integer_bound has
\* strict = false, for every input.
C12_ResultNonStrict == pc = "rounded" => ~result.strict

\* C12: the inequality returned by round_integer_bound has strict = false
\* unless the input has more than one term and a non-integer coefficient; such
\* an input is returned unchanged, strict flag included.
C12_ResultNonStrictUnlessSkipped ==
    pc = "rounded" =>
        IF HasFractionalMultiTerm(ineq) THEN result = ineq ELSE ~result.strict

\* a strict single-variable bound 2x - 1 > 0 is tightened to a non-strict one
C12_Witness ==
    /\ pc = "rounded"
    /\ ineq = [terms |-> <<LinearTerm(0, R(2))>>, constant |-> R(-1), strict |-> TRUE]
    /\ ~result.strict
    /\ result.constant # ineq.constant

\* a strict bound with a coefficient 1/2 beside another term stays strict
C12_WitnessSkipped ==
    /\ pc = "rounded"
    /\ HasFractionalMultiTerm(ineq)
    /\ ineq.strict
    /\ result.strict

\* ================================== SpecBranch: two branches off one system
\* The caller builds a base system s (auto s = s0.add(q)), then extends it
\* twice: auto a = s.add(qa); auto b = s.add(qb).  sys is s, sysB is a, work
\* is b, ineq the inequality of the last add.
InitBranch ==
    /\ pc = "w0"
    /\ sys \in {[ineqs |-> <<>>, vars |-> r] : r \in Registries}
    /\ sysB = EmptySystem
    /\ work = EmptySystem
    /\ v = 0
    /\ ineq = NoIneq
    /\ premise = NoExpr
    /\ conclusion = NoExpr
    /\ dnf = EmptyDnf
    /\ result = "none"

\* s = s.add(q)
AddBase(q) ==
    /\ pc = "w0"
    /\ pc' = "w1"
    /\ sys' = add(sys, q)
    /\ ineq' = q
    /\ UNCHANGED <<sysB, work, v, premise, conclusion, dnf, result>>

\* a = s.add(q)
BranchA(q) ==
    /\ pc \in {"w0", "w1"}
    /\ pc' = "wa"
    /\ sysB' = add(sys, q)
    /\ ineq' = q
    /\ UNCHANGED <<sys, work, v, premise, conclusion, dnf, result>>

\* b = s.add(q)
BranchB(q) ==
    /\ pc = "wa"
    /\ pc' = "wb"
    /\ work' = add(sys, q)
    /\ ineq' = q
    /\ UNCHANGED <<sys, sysB, v, premise, conclusion, dnf, result>>

NextBranch ==
    \/ \E q \in Ineqs(1) : AddBase(q)
    \/ \E q \in Ineqs(1) : BranchA(q)
    \/ \E q \in Ineqs(1) : BranchB(q)

SpecBranch == InitBranch /\ [][NextBranch]_vars

\* t is s with q appended: same VarInfo, same first inequalities, q last
Extends(t, s, q) ==
    /\ t.vars = s.vars
    /\ t.ineqs = Append(s.ineqs, q)

\* C13: add is copy-on-write -- s.add(q) is s with q appended (count + 1,
\* same VarInfo), s itself is unchanged, and a second branch off s leaves the
\* first branch as it was.
C13_AddCopyOnWrite ==
    [][/\ pc' = "wa" => (Extends(sysB', sys, ineq') /\ sys' = sys)
       /\ pc' = "wb" => (Extends(work', sys, ineq') /\ sys' = sys /\ sysB' = sysB)]_vars

\* two different branches off a base of one inequality
C13_Witness ==
    /\ pc = "wb"
    /\ Len(sys.ineqs) = 1
    /\ Len(sysB.ineqs) = 2
    /\ Len(work.ineqs) = 2
    /\ sysB # work
    /\ sysB.ineqs[1] = sys.ineqs[1]
    /\ work.ineqs[1] = sys.ineqs[1]

\* ================================= SpecCapacity: operations at their capacity
\* one name more than a VarInfo holds
VarNames ==
    <<"v1", "v2", "v3", "v4", "v5", "v6", "v7", "v8", "v9", "v10", "v11", "v12",
      "v13", "v14", "v15", "v16", "v17">>

\* v_lo + ... + v_hi
RECURSIVE SumVars(_, _)
SumVars(lo, hi) ==
    IF hi = lo THEN Var(VarNames[lo])
    ELSE Node2("add", SumVars(lo, hi - 1), Var(VarNames[hi]))

\* v_lo + ... + v_hi >= 0
AtomSum(lo, hi) == Node2("ge", SumVars(lo, hi), Lit(Zero))

\* x > 1 || x > 2 || ... || x > n
RECURSIVE DisjN(_)
DisjN(n) ==
    IF n = 1 THEN Node2("gt", X, Lit(One))
    ELSE Node2("lor", DisjN(n - 1), Node2("gt", X, Lit(R(n))))

\* formulas up to and one past MaxTermsPerIneq terms, MaxVars names and
\* MaxClauses clauses
CapFormulas ==
    {AtomSum(1, n) : n \in 1..(MaxTermsPerIneq + 1)}
    \cup {Node2("land", AtomSum(1, MaxTermsPerIneq),
                        AtomSum(MaxTermsPerIneq + 1, m)) : m \in {MaxVars, MaxVars + 1}}
    \cup {DisjN(n) : n \in 1..(MaxClauses + 1)}
    \cup {Node2("land", DisjN(a), DisjN(b)) : a \in 1..4, b \in 1..4}

\* the variable names of a tree
RECURSIVE VarsOf(_)
VarsOf(node) ==
    IF node.tag = "lit" THEN {}
    ELSE IF node.tag = "var" THEN {node.name}
    ELSE IF "c1" \in DOMAIN node THEN VarsOf(node.c0) \cup VarsOf(node.c1)
    ELSE VarsOf(node.c0)

\* the largest number of variables in one comparison of the tree
RECURSIVE WidestAtom(_)
WidestAtom(node) ==
    IF node.tag \in ComparisonTags THEN Cardinality(VarsOf(node))
    ELSE IF WidestAtom(node.c0) >= WidestAtom(node.c1) THEN WidestAtom(node.c0)
    ELSE WidestAtom(node.c1)

\* the number of inequalities in each clause of the DNF of a tree built from
\* non-equality comparisons, "land" and "lor"
RECURSIVE ClauseSizes(_)
ClauseSizes(node) ==
    IF node.tag \in ComparisonTags THEN <<1>>
    ELSE IF node.tag = "lor" THEN ClauseSizes(node.c0) \o ClauseSizes(node.c1)
    ELSE LET l == ClauseSizes(node.c0)
             r == ClauseSizes(node.c1)
         IN  [k \in 1..(Len(l) * Len(r)) |->
                l[((k - 1) \div Len(r)) + 1] + r[((k - 1) % Len(r)) + 1]]

\* the formula needs more than some capacity holds
ExceedsCapacity(f) ==
    \/ Cardinality(VarsOf(f)) > MaxVars
    \/ WidestAtom(f) > MaxTermsPerIneq
    \/ ClauseCount(f, FALSE) > MaxClauses

\* the parse holds every clause, inequality, variable and term of the formula
Complete(r, f) ==
    /\ Len(r.clauses) = Len(ClauseSizes(f))
    /\ \A i \in 1..Len(r.clauses) :
          /\ Len(r.clauses[i].ineqs) = ClauseSizes(f)[i]
          /\ {r.clauses[i].vars[k].name : k \in 1..Len(r.clauses[i].vars)} = VarsOf(f)
    /\ f.tag \in ComparisonTags =>
          Len(r.clauses[1].ineqs[1].terms) = Cardinality(VarsOf(f))

XYInt == <<[name |-> "x", is_integer |-> TRUE], [name |-> "y", is_integer |-> TRUE]>>

\* l lower bounds x - i >= 0, h upper bounds -x + i >= 0, u inequalities
\* y + i >= 0 without x
SysOf(l, h, u) ==
    [vars |-> XYInt,
     ineqs |-> [i \in 1..l |-> make(<<LinearTerm(0, One)>>, R(-i), FALSE)]
               \o [i \in 1..h |-> make(<<LinearTerm(0, R(-1))>>, R(i), FALSE)]
               \o [i \in 1..u |-> make(<<LinearTerm(1, One)>>, R(i), FALSE)]]

\* over ten variables: a lower bound on v1 with a other variables and an upper
\* bound on v1 with b further variables
WideSys(a, b) ==
    [vars |-> [i \in 1..10 |-> [name |-> VarNames[i], is_integer |-> TRUE]],
     ineqs |-> <<make([i \in 1..(a + 1) |-> LinearTerm(i - 1, One)], Zero, FALSE),
                 make(<<LinearTerm(0, R(-1))>>
                      \o [i \in 1..b |-> LinearTerm(a + i, One)], Zero, FALSE)>>]

\* systems whose elimination of variable 0 yields up to and past MaxIneqs
\* inequalities or MaxTermsPerIneq terms, and systems with MaxIneqs - 1 and
\* MaxIneqs inequalities
CapSystems ==
    {SysOf(l, h, u) : l \in {0, 1, 7, 8, 9}, h \in {0, 1, 7, 8, 9}, u \in {0, 1}}
    \cup {SysOf(8, 7, 8)}
    \cup {SysOf(0, 0, u) : u \in {MaxIneqs - 1, MaxIneqs}}
    \cup {WideSys(4, b) : b \in {4, 5}}

InitCapacity ==
    /\ pc = "k0"
    /\ premise \in CapFormulas
    /\ conclusion = NoExpr
    /\ sys \in CapSystems
    /\ sysB = EmptySystem
    /\ work = EmptySystem
    /\ v = 0
    /\ ineq = NoIneq
    /\ dnf = EmptyDnf
    /\ result = "none"

\* dnf = parse_to_system(premise)
CapParse ==
    /\ pc = "k0"
    /\ pc' = "parsed"
    /\ dnf' = parse_to_system(premise)
    /\ UNCHANGED <<sys, sysB, work, v, ineq, premise, conclusion, result>>

\* result = dnf.add_clause(sys)
CapAddClause ==
    /\ pc = "parsed"
    /\ ~IsErr(dnf)
    /\ pc' = "clause_added"
    /\ result' = add_clause(dnf, sys)
    /\ UNCHANGED <<sys, sysB, work, v, ineq, premise, conclusion, dnf>>

\* work = sys.add(q)
CapAdd(q) ==
    /\ pc = "k0"
    /\ pc' = "added"
    /\ ineq' = q
    /\ work' = add(sys, q)
    /\ UNCHANGED <<sys, sysB, v, premise, conclusion, dnf, result>>

\* work = eliminate_variable(sys, 0)
CapEliminate ==
    /\ pc = "k0"
    /\ pc' = "eliminated"
    /\ work' = eliminate_variable(sys, 0)
    /\ UNCHANGED <<sys, sysB, v, ineq, premise, conclusion, dnf, result>>

NextCapacity ==
    \/ CapParse
    \/ CapAddClause
    \/ \E q \in {make(<<LinearTerm(0, One)>>, Zero, TRUE)} : CapAdd(q)
    \/ CapEliminate

SpecCapacity == InitCapacity /\ [][NextCapacity]_vars

\* the inequalities of s with a positive (sign = 1), negative (sign = -1) or
\* no (sign = 0) coefficient on variable 0
BoundsOf(s, sign) ==
    {i \in 1..Len(s.ineqs) :
        LET c == coeff_of(s.ineqs[i], 0)
        IN  IF sign > 0 THEN RPos(c) ELSE IF sign < 0 THEN RNegative(c) ELSE RIsZero(c)}

\* U + L * H
EliminatedCount(s) ==
    Cardinality(BoundsOf(s, 0)) + Cardinality(BoundsOf(s, 1)) * Cardinality(BoundsOf(s, -1))

\* the variables other than variable 0 of the inequalities i and j
OtherVars(s, i, j) ==
    ({s.ineqs[i].terms[k].var_id : k \in 1..Len(s.ineqs[i].terms)}
     \cup {s.ineqs[j].terms[k].var_id : k \in 1..Len(s.ineqs[j].terms)}) \ {0}

EliminationExceeds(s) ==
    \/ EliminatedCount(s) > MaxIneqs
    \/ \E i \in BoundsOf(s, 1), j \in BoundsOf(s, -1) :
          Cardinality(OtherVars(s, i, j)) > MaxTermsPerIneq

\* C14: no silent truncation -- an operation that would exceed MaxIneqs,
\* MaxClauses, MaxVars or MaxTermsPerIneq fails with an error, and every
\* result that is returned holds every inequality, clause, variable and term.
C14_NoSilentTruncation ==
    /\ pc = "parsed" =>
          IF ExceedsCapacity(premise) THEN IsErr(dnf)
          ELSE ~IsErr(dnf) /\ Complete(dnf, premise)
    /\ pc = "clause_added" =>
          IF Len(dnf.clauses) >= MaxClauses THEN IsErr(result)
          ELSE ~IsErr(result) /\ result.clauses = Append(dnf.clauses, sys)
    /\ pc = "added" =>
          IF Len(sys.ineqs) >= MaxIneqs THEN IsErr(work)
          ELSE ~IsErr(work) /\ Extends(work, sys, ineq)
    /\ pc = "eliminated" =>
          IF EliminationExceeds(sys) THEN IsErr(work)
          ELSE /\ ~IsErr(work)
               /\ Len(work.ineqs) = EliminatedCount(sys)
               /\ work.vars = sys.vars

\* nine lower and eight upper bounds: 72 combinations, an error
C14_Witness ==
    /\ pc = "eliminated"
    /\ sys = SysOf(9, 8, 0)
    /\ work = Err("InequalitySystem capacity exceeded")

\* eight by eight bounds: exactly MaxIneqs combinations, all kept
C14_WitnessFull ==
    /\ pc = "eliminated"
    /\ sys = SysOf(8, 8, 0)
    /\ ~IsErr(work)
    /\ Len(work.ineqs) = MaxIneqs

\* ================================================ SpecVars: a VarInfo in use
\* sys.vars is the registry, result the last call (its name and flag), v the
\* id it returned (-1 for std::nullopt)
RegNames == {"x", "y", "z", "w"}

InitVars ==
    /\ pc = "n0"
    /\ premise = NoExpr
    /\ conclusion = NoExpr
    /\ EmptyRest

\* v = sys.vars.find_or_add(name, integer)
FindOrAdd(name, integer) ==
    /\ ~IsErr(find_or_add(sys.vars, name, integer))
    /\ pc' = "find_or_add"
    /\ sys' = [sys EXCEPT !.vars = find_or_add(sys.vars, name, integer).vars]
    /\ v' = find_or_add(sys.vars, name, integer).id
    /\ result' = [name |-> name, integer |-> integer]
    /\ UNCHANGED <<sysB, work, ineq, premise, conclusion, dnf>>

\* v = sys.vars.find(name)
Find(name) ==
    /\ pc' = "find"
    /\ v' = find(sys.vars, name)
    /\ result' = [name |-> name]
    /\ UNCHANGED <<sys, sysB, work, ineq, premise, conclusion, dnf>>

NextVars ==
    \/ \E name \in RegNames, integer \in BOOLEAN : FindOrAdd(name, integer)
    \/ \E name \in RegNames : Find(name)

SpecVars == InitVars /\ [][NextVars]_vars

\* the positions of the registry holding the name
PositionsOf(vs, name) == {i \in 1..Len(vs) : vs[i].name = name}

\* C15: VarInfo ids are stable -- find_or_add on a new name appends it and
\* returns the old count; on a registered name it returns the id of the first
\* registration and changes nothing, whatever flag is passed; no call changes
\* the id or flag of an existing name; find returns that id, or nothing.
C15_StableIds ==
    [][/\ \A i \in 1..Len(sys.vars) : Len(sys'.vars) >= i /\ sys'.vars[i] = sys.vars[i]
       /\ pc' = "find_or_add" =>
             IF PositionsOf(sys.vars, result'.name) = {}
             THEN /\ v' = Len(sys.vars)
                  /\ sys'.vars = Append(sys.vars, [name |-> result'.name,
                                                   is_integer |-> result'.integer])
             ELSE /\ PositionsOf(sys.vars, result'.name) = {v' + 1}
                  /\ sys'.vars = sys.vars
       /\ pc' = "find" =>
             /\ sys'.vars = sys.vars
             /\ IF PositionsOf(sys.vars, result'.name) = {} THEN v' = -1
                ELSE PositionsOf(sys.vars, result'.name) = {v' + 1}]_vars

\* "x" was registered first as real; a later find_or_add("x", true), with two
\* more names registered since, returns 0 and leaves the flag real
C15_Witness ==
    /\ pc = "find_or_add"
    /\ Len(sys.vars) = 3
    /\ result = [name |-> "x", integer |-> TRUE]
    /\ v = 0
    /\ sys.vars[1] = [name |-> "x", is_integer |-> FALSE]

\* ============================== SpecInherit: parsing with a caller's VarInfo
\* sys.vars is the caller's registry, premise the expression handed to the
\* parser, result what the parser returned
InheritRegistries == {EmptyVarInfo} \cup Registries

InheritFormulas ==
    AtomsArith \cup AtomsXY \cup Conj2(AtomsTiny, AtomsTiny) \cup Disj2(AtomsTiny, AtomsTiny)

InitInherit ==
    /\ pc = "i0"
    /\ premise \in ArithTerms \cup InheritFormulas
    /\ conclusion = NoExpr
    /\ sysB = EmptySystem
    /\ work = EmptySystem
    /\ v = 0
    /\ ineq = NoIneq
    /\ dnf = EmptyDnf
    /\ result = "none"
    /\ \E vs \in InheritRegistries : sys = [EmptySystem EXCEPT !.vars = vs]

\* auto r = parse_arith(NodeView{e.ast, e.id}, vars); return std::pair{r, vars}
CallParseArith ==
    /\ pc = "i0"
    /\ premise \in ArithTerms
    /\ pc' = "parsed_arith"
    /\ result' = parse_arith(premise, sys.vars)
    /\ UNCHANGED <<sys, sysB, work, v, ineq, premise, conclusion, dnf>>

\* return parse_to_system(e, vars)
CallParseToSystem ==
    /\ pc = "i0"
    /\ premise \in InheritFormulas
    /\ pc' = "parsed_system"
    /\ result' = parse_to_system_vars(premise, sys.vars)
    /\ UNCHANGED <<sys, sysB, work, v, ineq, premise, conclusion, dnf>>

NextInherit == CallParseArith \/ CallParseToSystem

SpecInherit == InitInherit /\ [][NextInherit]_vars

AllInteger(vs) == \A i \in 1..Len(vs) : vs[i].is_integer

\* the registries a parse hands back: the caller's VarInfo afterwards and, for
\* parse_to_system, the VarInfo of every clause
RegistriesAfter ==
    {result.vars}
    \cup (IF pc = "parsed_system"
          THEN {result.res.clauses[i].vars : i \in 1..Len(result.res.clauses)}
          ELSE {})

\* C16: parsing with a caller-supplied VarInfo whose pre-registered variables
\* are real registers every newly discovered variable as real too; parsing
\* with an empty VarInfo registers every variable as integer.
C16_RealInheritance ==
    (pc \in {"parsed_arith", "parsed_system"} /\ ~IsErr(result)) =>
        /\ (sys.vars # EmptyVarInfo /\ AllReal(sys.vars)) =>
              \A vs \in RegistriesAfter : AllReal(vs)
        /\ sys.vars = EmptyVarInfo =>
              \A vs \in RegistriesAfter : AllInteger(vs)

\* what the parser does instead: a variable first discovered during parsing is
\* registered as integer, whatever the caller's registry holds
C16_NewVariablesInteger ==
    (pc \in {"parsed_arith", "parsed_system"} /\ ~IsErr(result)) =>
        \A vs \in RegistriesAfter :
            /\ \A i \in 1..Len(sys.vars) : vs[i] = sys.vars[i]
            /\ \A i \in (Len(sys.vars) + 1)..Len(vs) : vs[i].is_integer

\* ParseArithReal.InheritsRealType: x pre-registered as real, y discovered
C16_FailingState ==
    /\ pc = "parsed_arith"
    /\ sys.vars = XReal
    /\ premise = Node2("add", X, Y)
    /\ result.vars = <<[name |-> "x", is_integer |-> FALSE],
                       [name |-> "y", is_integer |-> TRUE]>>

\* ============================ SpecZero: an explicit zero-coefficient term
\* sys is the system as built, sysB the same system with one zero-coefficient
\* term inserted, result the two outcomes of fm_is_unsat
InitZero ==
    /\ pc = "z0"
    /\ sys \in {[ineqs |-> <<>>, vars |-> r] : r \in Registries}
    /\ sysB = EmptySystem
    /\ work = EmptySystem
    /\ v = 0
    /\ ineq = NoIneq
    /\ premise = NoExpr
    /\ conclusion = NoExpr
    /\ dnf = EmptyDnf
    /\ result = "none"

\* sys = sys.add(q)
AddZ(q) ==
    /\ pc \in {"z0", "z1"}
    /\ pc' = IF pc = "z0" THEN "z1" ELSE "z2"
    /\ sys' = add(sys, q)
    /\ UNCHANGED <<sysB, work, v, ineq, premise, conclusion, dnf, result>>

InsertAt(seq, pos, x) == SubSeq(seq, 1, pos - 1) \o <<x>> \o SubSeq(seq, pos, Len(seq))

\* the caller builds inequality i with an extra term {var_id, 0.0} at position
\* pos, for a registered variable the inequality does not mention
InsertZero(i, pos, var_id) ==
    /\ pc \in {"z1", "z2"}
    /\ i \in 1..Len(sys.ineqs)
    /\ pos \in 1..(Len(sys.ineqs[i].terms) + 1)
    /\ var_id \in 0..(Len(sys.vars) - 1)
    /\ \A t \in 1..Len(sys.ineqs[i].terms) : sys.ineqs[i].terms[t].var_id # var_id
    /\ pc' = "zero_inserted"
    /\ sysB' = [sys EXCEPT !.ineqs[i].terms = InsertAt(@, pos, LinearTerm(var_id, Zero))]
    /\ v' = i
    /\ UNCHANGED <<sys, work, ineq, premise, conclusion, dnf, result>>

\* fm_is_unsat(sys) and fm_is_unsat(sysB)
CallFmBoth ==
    /\ pc = "zero_inserted"
    /\ pc' = "done"
    /\ result' = [absent |-> fm_is_unsat(sys), zero |-> fm_is_unsat(sysB)]
    /\ UNCHANGED <<sys, sysB, work, v, ineq, premise, conclusion, dnf>>

NextZero ==
    \/ \E q \in Ineqs(Len(sys.vars)) : AddZ(q)
    \/ \E i \in 1..2, pos \in 1..3, var_id \in 0..1 : InsertZero(i, pos, var_id)
    \/ CallFmBoth

SpecZero == InitZero /\ [][NextZero]_vars

\* C17: a term with coefficient zero means the same as an absent term --
\* inserting a zero-coefficient term for a registered variable into an
\* inequality leaves the outcome of fm_is_unsat unchanged (same verdict, no
\* error).
C17_ZeroTermIsAbsent ==
    pc = "done" =>
        /\ result.zero = result.absent
        /\ result.zero \in {"true", "false"}

\* what differs: the outcome with the zero term is either the same verdict or
\* the error of has_contradiction
C17_ZeroTermSameOrError ==
    pc = "done" =>
        \/ result.zero = result.absent
        \/ result.zero = "has_contradiction: system still has variable terms"

\* x integer; 1 >= 0 is satisfiable, 0*x + 1 >= 0 makes fm_is_unsat throw
C17_FailingState ==
    /\ pc = "done"
    /\ sys.vars = XInt
    /\ sysB.ineqs = <<make(<<LinearTerm(0, Zero)>>, One, FALSE)>>
    /\ result = [absent |-> "false",
                 zero |-> "has_contradiction: system still has variable terms"]

\* ================== SpecGuard: clause_implies on systems with own registries
\* sys is clause A, sysB clause B, each built over its own VarInfo
NamedVars(names, integer) == [i \in 1..Len(names) |-> [name |-> names[i], is_integer |-> integer]]

NameOrders == {<<>>, <<"x">>, <<"y">>, <<"x", "y">>, <<"y", "x">>}

\* inequalities over at most one of the first n ids
GuardIneqs(n) ==
    {[terms |-> ts, constant |-> c, strict |-> FALSE] :
        ts \in {<<>>} \cup {<<LinearTerm(i, a)>> : i \in 0..(n - 1), a \in CoeffVals},
        c \in ConstVals}

InitGuard ==
    /\ pc = "g0"
    /\ \E names \in NameOrders, integer \in BOOLEAN :
          sys = [ineqs |-> <<>>, vars |-> NamedVars(names, integer)]
    /\ \E names \in NameOrders : sysB = [ineqs |-> <<>>, vars |-> NamedVars(names, TRUE)]
    /\ work = EmptySystem
    /\ v = 0
    /\ ineq = NoIneq
    /\ premise = NoExpr
    /\ conclusion = NoExpr
    /\ dnf = EmptyDnf
    /\ result = "none"

\* a = a.add(q)
GuardAddA(q) ==
    /\ pc = "g0"
    /\ pc' = "ga"
    /\ sys' = add(sys, q)
    /\ UNCHANGED <<sysB, work, v, ineq, premise, conclusion, dnf, result>>

\* b = b.add(q)
GuardAddB(q) ==
    /\ pc \in {"g0", "ga", "gb"}
    /\ Len(sysB.ineqs) < 2
    /\ pc' = "gb"
    /\ sysB' = add(sysB, q)
    /\ UNCHANGED <<sys, work, v, ineq, premise, conclusion, dnf, result>>

\* clause_implies(a, b)
GuardCall ==
    /\ pc \in {"g0", "ga", "gb"}
    /\ pc' = "done"
    /\ result' = clause_implies(sys, sysB)
    /\ UNCHANGED <<sys, sysB, work, v, ineq, premise, conclusion, dnf>>

NextGuard ==
    \/ \E q \in GuardIneqs(Len(sys.vars)) : GuardAddA(q)
    \/ \E q \in GuardIneqs(Len(sysB.vars)) : GuardAddB(q)
    \/ GuardCall

SpecGuard == InitGuard /\ [][NextGuard]_vars

\* every name of the shorter registry sits at the same position in the longer
PositionallyConsistent(va, vb) ==
    \A i \in 1..(IF Len(va) <= Len(vb) THEN Len(va) ELSE Len(vb)) :
        va[i].name = vb[i].name

\* C18: clause_implies(A, B) throws 'incompatible variable orderings' exactly
\* when a name of the smaller VarInfo is missing from, or at another position
\* in, the larger one; for positionally consistent registries (one may be a
\* strict prefix of the other) it returns a boolean, true iff
\* fm_is_unsat(A plus negate_inequality(b)) holds for every inequality b of B.
C18_GuardThenBoolean ==
    pc = "done" =>
        /\ (result = "clause_implies: incompatible variable orderings")
              <=> ~PositionallyConsistent(sys.vars, sysB.vars)
        /\ PositionallyConsistent(sys.vars, sysB.vars) =>
              /\ result \in {"true", "false"}
              /\ (result = "true") <=>
                    \A i \in 1..Len(sysB.ineqs) :
                        fm_is_unsat(add(sys, negate_inequality(sysB.ineqs[i]))) = "true"

\* the part that holds: the guard throws exactly on inconsistent registries,
\* and the call returns the stated boolean whenever B's registry is no longer
\* than A's
C18_GuardExact ==
    pc = "done" =>
        /\ (result = "clause_implies: incompatible variable orderings")
              <=> ~PositionallyConsistent(sys.vars, sysB.vars)
        /\ (PositionallyConsistent(sys.vars, sysB.vars) /\ Len(sysB.vars) <= Len(sys.vars)) =>
              /\ result \in {"true", "false"}
              /\ (result = "true") <=>
                    \A i \in 1..Len(sysB.ineqs) :
                        fm_is_unsat(add(sys, negate_inequality(sysB.ineqs[i]))) = "true"

\* A over <<x>>, B over <<x, y>> with y >= 0: the guard passes, the test system
\* keeps A's registry and y is never eliminated
C18_FailingState ==
    /\ pc = "done"
    /\ sys = [ineqs |-> <<>>, vars |-> NamedVars(<<"x">>, TRUE)]
    /\ sysB = [ineqs |-> <<make(<<LinearTerm(1, One)>>, Zero, FALSE)>>,
               vars |-> NamedVars(<<"x", "y">>, TRUE)]
    /\ result = "has_contradiction: system still has variable terms"

\* ===================================== the verdict of fm_is_unsat (SpecFM)
\* c >= 0 with c < 0, or c > 0 with c <= 0
Contradictory(q) ==
    IF q.strict THEN q.constant[1] <= 0 ELSE q.constant[1] < 0

\* C19: fm_is_unsat(S) returns true exactly when, after eliminating the
\* variables 0..n-1 in turn, the remaining constant-only system contains an
\* inequality whose constant is negative, or is zero or negative while the
\* inequality is strict; an empty system, and a system whose remaining
\* constants are all non-negative (positive if strict), is satisfiable.
C19_VerdictFromConstants ==
    pc = "done" =>
        /\ v = Len(sys.vars)
        /\ work = fm_loop(sys, 0)
        /\ \A i \in 1..Len(work.ineqs) : work.ineqs[i].terms = <<>>
        /\ result = Verdict(\E i \in 1..Len(work.ineqs) : Contradictory(work.ineqs[i]))
        /\ result = fm_is_unsat(sys)
        /\ sys.ineqs = <<>> => result = "false"

\* two bounds on a variable combine to the strict 0 > 0: UNSAT through the
\* strict rule alone
C19_Witness ==
    /\ pc = "done"
    /\ result = "true"
    /\ Len(sys.ineqs) = 2
    /\ \A i \in 1..2 : sys.ineqs[i].terms # <<>>
    /\ \E i \in 1..Len(work.ineqs) : work.ineqs[i].strict /\ work.ineqs[i].constant = Zero
    /\ \A i \in 1..Len(work.ineqs) : work.ineqs[i].constant[1] >= 0

\* the empty system is satisfiable
C19_WitnessEmpty ==
    /\ pc = "done"
    /\ sys.ineqs = <<>>
    /\ result = "false"

\* ============================== SpecElim: one call of eliminate_variable
\* sys is the input system over x and y, v the eliminated variable, work the
\* system returned
ElimIneqs ==
    {[terms |-> ts, constant |-> c, strict |-> s] :
        ts \in TermChoices(2)
               \cup {<<LinearTerm(0, Zero)>>, <<LinearTerm(0, Zero), LinearTerm(1, One)>>},
        c \in ConstVals, s \in BOOLEAN}

\* bounds on one variable, for the third inequality
ElimBounds ==
    {[terms |-> <<LinearTerm(i, a)>>, constant |-> Zero, strict |-> s] :
        i \in 0..1, a \in CoeffVals, s \in BOOLEAN}

InitElim ==
    /\ pc = "e0"
    /\ \E integer \in BOOLEAN :
          sys = [ineqs |-> <<>>, vars |-> NamedVars(<<"x", "y">>, integer)]
    /\ sysB = EmptySystem
    /\ work = EmptySystem
    /\ v = 0
    /\ ineq = NoIneq
    /\ premise = NoExpr
    /\ conclusion = NoExpr
    /\ dnf = EmptyDnf
    /\ result = "none"

\* sys = sys.add(q)
ElimAdd(q) ==
    /\ pc \in {"e0", "e1"}
    /\ pc' = IF pc = "e0" THEN "e1" ELSE "e2"
    /\ sys' = add(sys, q)
    /\ UNCHANGED <<sysB, work, v, ineq, premise, conclusion, dnf, result>>

\* sys = sys.add(q), the third inequality
ElimAddBound(q) ==
    /\ pc = "e2"
    /\ pc' = "e3"
    /\ sys' = add(sys, q)
    /\ UNCHANGED <<sysB, work, v, ineq, premise, conclusion, dnf, result>>

\* eliminate_variable(sys, var_id)
CallEliminate(var_id) ==
    /\ pc \in {"e0", "e1", "e2", "e3"}
    /\ pc' = "eliminated"
    /\ v' = var_id
    /\ work' = eliminate_variable(sys, var_id)
    /\ UNCHANGED <<sys, sysB, ineq, premise, conclusion, dnf, result>>

NextElim ==
    \/ \E q \in ElimIneqs : ElimAdd(q)
    \/ \E q \in ElimBounds : ElimAddBound(q)
    \/ \E var_id \in 0..1 : CallEliminate(var_id)

SpecElim == InitElim /\ [][NextElim]_vars

\* the inequality has a term in var_id with a positive / negative coefficient
IsLowerBound(q, var_id) ==
    \E t \in 1..Len(q.terms) : q.terms[t].var_id = var_id /\ q.terms[t].coeff[1] > 0
IsUpperBound(q, var_id) ==
    \E t \in 1..Len(q.terms) : q.terms[t].var_id = var_id /\ q.terms[t].coeff[1] < 0
MentionsVar(q, var_id) == \E t \in 1..Len(q.terms) : q.terms[t].var_id = var_id
HasZeroTerm(q) == \E t \in 1..Len(q.terms) : q.terms[t].coeff[1] = 0

UnrelatedOf(s, var_id) ==
    SelectSeq(s.ineqs, LAMBDA q : ~IsLowerBound(q, var_id) /\ ~IsUpperBound(q, var_id))
LowersOf(s, var_id) == SelectSeq(s.ineqs, LAMBDA q : IsLowerBound(q, var_id))
UppersOf(s, var_id) == SelectSeq(s.ineqs, LAMBDA q : IsUpperBound(q, var_id))

C20_WitnessDropped ==
    /\ pc = "eliminated"
    /\ Len(sys.ineqs) = 3
    /\ Len(UnrelatedOf(sys, v)) = 1
    /\ Len(LowersOf(sys, v)) = 2
    /\ work.ineqs = UnrelatedOf(sys, v)

\* ==================================== SpecCombine: one call of combine_bounds
\* sys.ineqs = <<lower, upper>>, bounds on variable 0 over x, y, z; result is
\* the combined inequality
XYZ == NamedVars(<<"x", "y", "z">>, FALSE)

\* term lists with coefficient a on x, b on y, 1 on z, x first or second
BoundTerms(a, b) ==
    {<<LinearTerm(0, R(a))>>,
     <<LinearTerm(0, R(a)), LinearTerm(1, R(b))>>,
     <<LinearTerm(1, R(b)), LinearTerm(0, R(a))>>,
     <<LinearTerm(0, R(a)), LinearTerm(1, R(b)), LinearTerm(2, One)>>}

CombineLowers ==
    {[terms |-> ts, constant |-> c, strict |-> s] :
        ts \in UNION {BoundTerms(a, b) : a \in {1, 2}, b \in {-1, 1, 3}},
        c \in ConstVals \cup {R(-6)}, s \in BOOLEAN}

CombineUppers ==
    {[terms |-> ts, constant |-> c, strict |-> s] :
        ts \in UNION {BoundTerms(a, b) : a \in {-1, -3}, b \in {-3, -1, 1}},
        c \in ConstVals \cup {R(15)}, s \in BOOLEAN}

InitCombine ==
    /\ pc = "c0"
    /\ \E lower \in CombineLowers, upper \in CombineUppers :
          sys = [ineqs |-> <<lower, upper>>, vars |-> XYZ]
    /\ sysB = EmptySystem
    /\ work = EmptySystem
    /\ v = 0
    /\ ineq = NoIneq
    /\ premise = NoExpr
    /\ conclusion = NoExpr
    /\ dnf = EmptyDnf
    /\ result = "none"

\* combine_bounds(sys.ineqs[lower_idx], lower_coeff, sys.ineqs[upper_idx],
\*                upper_abs_coeff, var_id), as eliminate_variable calls it
CallCombine ==
    /\ pc = "c0"
    /\ pc' = "combined"
    /\ result' = combine_bounds(sys.ineqs[1], coeff_of(sys.ineqs[1], 0),
                                sys.ineqs[2], RNeg(coeff_of(sys.ineqs[2], 0)), 0)
    /\ UNCHANGED <<sys, sysB, work, v, ineq, premise, conclusion, dnf>>

NextCombine == CallCombine

SpecCombine == InitCombine /\ [][NextCombine]_vars

\* the integer coefficient of variable w in q (0 when q has no term in w)
CoefOn(q, w) ==
    IF \E t \in 1..Len(q.terms) : q.terms[t].var_id = w
    THEN q.terms[CHOOSE t \in 1..Len(q.terms) : q.terms[t].var_id = w].coeff[1]
    ELSE 0

C21_WitnessCancelled ==
    /\ pc = "combined"
    /\ sys.ineqs[1] = make(<<LinearTerm(0, One), LinearTerm(1, One)>>, Zero, TRUE)
    /\ sys.ineqs[2] = make(<<LinearTerm(0, R(-1)), LinearTerm(1, R(-1))>>, One, FALSE)
    /\ result = make(<<>>, One, TRUE)

\* ============================ multi-term rounding (SpecRound), C22
\* floor of the rational c, as a rational
FloorOf(c) == R(c[1] \div c[2])

\* C22: for an inequality with two or more terms, round_integer_bound returns
\* it unchanged if a coefficient is not an integer; if all coefficients are
\* integers the constant becomes floor(constant), or constant - 1 when the
\* inequality is strict and the constant an integer, whatever target_coeff is.
C22_MultiTermRounding ==
    (pc = "rounded" /\ Len(ineq.terms) >= 2) =>
        IF \E i \in 1..Len(ineq.terms) : ineq.terms[i].coeff[2] # 1
        THEN result = ineq
        ELSE /\ result.terms = ineq.terms
             /\ result.constant = IF ineq.strict /\ ineq.constant[2] = 1
                                  THEN R(ineq.constant[1] - 1)
                                  ELSE FloorOf(ineq.constant)
             /\ ~result.strict

\* 2x - y + 1/2 >= 0: the constant becomes 0
C22_Witness ==
    /\ pc = "rounded"
    /\ ineq = [terms |-> <<LinearTerm(0, R(2)), LinearTerm(1, R(-1))>>,
               constant |-> Rat(1, 2), strict |-> FALSE]
    /\ result = [ineq EXCEPT !.constant = Zero]

\* 2x - y + 1 > 0: strict with an integer constant, the constant becomes 0
C22_WitnessStrict ==
    /\ pc = "rounded"
    /\ ineq = [terms |-> <<LinearTerm(0, R(2)), LinearTerm(1, R(-1))>>,
               constant |-> One, strict |-> TRUE]
    /\ result = [ineq EXCEPT !.constant = Zero, !.strict = FALSE]

\* ================== SpecSingle: systems over one integer variable x
\* sys holds single-term inequalities a*x + c OP 0; sysB the bounds as
\* eliminate_variable rounds them in place, result the verdict of fm_is_unsat
MaxSingleConst == 7

SingleIneqs ==
    {[terms |-> <<LinearTerm(0, R(a))>>, constant |-> R(c), strict |-> s] :
        a \in {-3, -2, -1, 1, 2, 3}, c \in (-MaxSingleConst)..MaxSingleConst,
        s \in BOOLEAN}

\* the third inequality
SingleExtra ==
    {[terms |-> <<LinearTerm(0, R(a))>>, constant |-> R(c), strict |-> FALSE] :
        a \in {-2, 2}, c \in {-3, 3}}

InitSingle ==
    /\ pc = "u0"
    /\ sys = [ineqs |-> <<>>, vars |-> XInt]
    /\ sysB = EmptySystem
    /\ work = EmptySystem
    /\ v = 0
    /\ ineq = NoIneq
    /\ premise = NoExpr
    /\ conclusion = NoExpr
    /\ dnf = EmptyDnf
    /\ result = "none"

\* sys = sys.add(q)
SingleAdd(q) ==
    /\ pc \in {"u0", "u1"}
    /\ pc' = IF pc = "u0" THEN "u1" ELSE "u2"
    /\ sys' = add(sys, q)
    /\ UNCHANGED <<sysB, work, v, ineq, premise, conclusion, dnf, result>>

\* sys = sys.add(q), the third inequality
SingleAddExtra(q) ==
    /\ pc = "u2"
    /\ pc' = "u3"
    /\ sys' = add(sys, q)
    /\ UNCHANGED <<sysB, work, v, ineq, premise, conclusion, dnf, result>>

\* the rounding loops of eliminate_variable(sys, 0) over the bounds of sys
rounded_bounds(s) ==
    [i \in 1..Len(s.ineqs) |->
        IF RPos(coeff_of(s.ineqs[i], 0))
        THEN round_integer_bound(s.ineqs[i], TRUE, coeff_of(s.ineqs[i], 0))
        ELSE round_integer_bound(s.ineqs[i], FALSE, RNeg(coeff_of(s.ineqs[i], 0)))]

\* fm_is_unsat(sys); sysB keeps the bounds as the first round tightened them
SingleCallFm ==
    /\ pc \in {"u1", "u2", "u3"}
    /\ pc' = "done"
    /\ sysB' = [sys EXCEPT !.ineqs = rounded_bounds(sys)]
    /\ result' = fm_is_unsat(sys)
    /\ UNCHANGED <<sys, work, v, ineq, premise, conclusion, dnf>>

NextSingle ==
    \/ \E q \in SingleIneqs : SingleAdd(q)
    \/ \E q \in SingleExtra : SingleAddExtra(q)
    \/ SingleCallFm

SpecSingle == InitSingle /\ [][NextSingle]_vars

\* the integers a bound with |c| <= MaxSingleConst + 1 and |a| >= 1 can cut at
SingleRange == (-(MaxSingleConst + 3))..(MaxSingleConst + 3)

\* a*x + c OP 0 at the integer x
HoldsAt(q, x) ==
    LET val == q.terms[1].coeff[1] * x * q.constant[2] + q.constant[1]
    IN  IF q.strict THEN val > 0 ELSE val >= 0

C23_WitnessSat ==
    /\ pc = "done"
    /\ sys.ineqs = <<make(<<LinearTerm(0, R(2))>>, R(-5), TRUE),
                     make(<<LinearTerm(0, R(-2))>>, R(7), TRUE)>>
    /\ result = "false"

\* ================================= SpecCmp: parse_comparison on one comparison
\* premise is the comparison node, sys.vars the registry handed in, result the
\* two outcomes (negate = false, negate = true)
CmpAtoms ==
    {Node2(t, a, b) : t \in ComparisonTags, a \in ArithTerms,
                      b \in ArithTerms \cup {Lit(R(k)) : k \in 0..MaxLit}}

InitCmp ==
    /\ pc = "m0"
    /\ premise \in CmpAtoms
    /\ conclusion = NoExpr
    /\ EmptyRest

\* parse_comparison(node, vars, false) and parse_comparison(node, vars, true)
CallCompare ==
    /\ pc = "m0"
    /\ pc' = "compared"
    /\ result' = [plain |-> parse_comparison(premise, sys.vars, FALSE),
                  negated |-> parse_comparison(premise, sys.vars, TRUE)]
    /\ UNCHANGED <<sys, sysB, work, v, ineq, premise, conclusion, dnf>>

NextCmp == CallCompare

SpecCmp == InitCmp /\ [][NextCmp]_vars

\* sum(terms) + constant under the environment
ValueOf(q, vs, env) == RAdd(SumTerms(q.terms, EnvAssignment(vs, env), 1), q.constant)

\* lhs - rhs of the comparison under the environment
Difference(node, env) == RSub(EvalArith(node.c0, env), EvalArith(node.c1, env))

\* q is strict as given and its left side equals sign * (lhs - rhs)
Emits(q, vs, node, sign, strict) ==
    /\ q.strict = strict
    /\ \A t \in 1..Len(q.terms) :
          /\ ~RIsZero(q.terms[t].coeff)
          /\ \A u \in 1..Len(q.terms) : q.terms[u].var_id = q.terms[t].var_id => u = t
    /\ \A env \in Envs :
          ValueOf(q, vs, env) = RMul(R(sign), Difference(node, env))

\* C24: parse_comparison emits lhs-rhs > 0 for gt, lhs-rhs >= 0 for ge,
\* rhs-lhs > 0 for lt and rhs-lhs >= 0 for le, as one clause with one
\* inequality; with negate set the inequality is negate_inequality of that
\* one; eq yields one clause with lhs-rhs >= 0 and rhs-lhs >= 0, and negated
\* eq, alone, two clauses with one strict inequality each.
C24_ComparisonNormalization ==
    pc = "compared" =>
        /\ ~IsErr(result.plain)
        /\ ~IsErr(result.negated)
        /\ LET t == premise.tag
               p == result.plain.res.clauses
               n == result.negated.res.clauses
               vs == result.plain.vars
           IN  IF t # "eq"
               THEN /\ Len(p) = 1
                    /\ Len(p[1].ineqs) = 1
                    /\ Emits(p[1].ineqs[1], vs, premise,
                             IF t \in {"gt", "ge"} THEN 1 ELSE -1, t \in {"gt", "lt"})
                    /\ Len(n) = 1
                    /\ n[1].ineqs = <<negate_inequality(p[1].ineqs[1])>>
               ELSE /\ Len(p) = 1
                    /\ Len(p[1].ineqs) = 2
                    /\ Emits(p[1].ineqs[1], vs, premise, 1, FALSE)
                    /\ Emits(p[1].ineqs[2], vs, premise, -1, FALSE)
                    /\ Len(n) = 2
                    /\ Len(n[1].ineqs) = 1
                    /\ Len(n[2].ineqs) = 1
                    /\ Emits(n[1].ineqs[1], vs, premise, -1, TRUE)
                    /\ Emits(n[2].ineqs[1], vs, premise, 1, TRUE)

\* x < y: y - x > 0, and negated x - y >= 0
C24_Witness ==
    /\ pc = "compared"
    /\ premise = Node2("lt", X, Y)
    /\ result.plain.res.clauses[1].ineqs =
          <<make(<<LinearTerm(0, R(-1)), LinearTerm(1, One)>>, Zero, TRUE)>>
    /\ result.negated.res.clauses[1].ineqs =
          <<make(<<LinearTerm(0, One), LinearTerm(1, R(-1))>>, Zero, FALSE)>>

\* x == 1 negated: the two clauses x < 1 and x > 1
C24_WitnessNotEqual ==
    /\ pc = "compared"
    /\ premise = Node2("eq", X, Lit(One))
    /\ Len(result.negated.res.clauses) = 2
    /\ result.negated.res.clauses[1].ineqs = <<make(<<LinearTerm(0, R(-1))>>, One, TRUE)>>
    /\ result.negated.res.clauses[2].ineqs = <<make(<<LinearTerm(0, One)>>, R(-1), TRUE)>>

\* ================================== SpecDnfOps: conjoin and disjoin of two DNFs
\* dnf = [left, right], the two ParseResults; result what the operation returned
\* clause i of a left DNF: x - i >= 0, and x - 2i > 0 as well when i is even
LeftClause(i) ==
    clause_of(XYInt, <<make(<<LinearTerm(0, One)>>, R(-i), FALSE)>>
                     \o (IF i % 2 = 0 THEN <<make(<<LinearTerm(0, One)>>, R(-2 * i), TRUE)>>
                         ELSE <<>>))

\* clause j of a right DNF: -y + j >= 0
RightClause(j) == clause_of(XYInt, <<make(<<LinearTerm(1, R(-1))>>, R(j), FALSE)>>)

InitDnfOps ==
    /\ pc = "d0"
    /\ \E nl \in 0..MaxClauses, nr \in 0..MaxClauses :
          dnf = [left |-> [clauses |-> [i \in 1..nl |-> LeftClause(i)]],
                 right |-> [clauses |-> [j \in 1..nr |-> RightClause(j)]]]
    /\ sys = EmptySystem
    /\ sysB = EmptySystem
    /\ work = EmptySystem
    /\ v = 0
    /\ ineq = NoIneq
    /\ premise = NoExpr
    /\ conclusion = NoExpr
    /\ result = "none"

\* conjoin(left, right)
CallConjoin ==
    /\ pc = "d0"
    /\ pc' = "conjoined"
    /\ result' = conjoin(dnf.left, dnf.right)
    /\ UNCHANGED <<sys, sysB, work, v, ineq, premise, conclusion, dnf>>

\* disjoin(left, right)
CallDisjoin ==
    /\ pc = "d0"
    /\ pc' = "disjoined"
    /\ result' = disjoin(dnf.left, dnf.right)
    /\ UNCHANGED <<sys, sysB, work, v, ineq, premise, conclusion, dnf>>

NextDnfOps == CallConjoin \/ CallDisjoin

SpecDnfOps == InitDnfOps /\ [][NextDnfOps]_vars

\* C25: conjoining DNFs L and R yields |L|*|R| clauses, the clause of pair
\* (i, j) holding L_i's inequalities followed by R_j's; disjoining yields
\* |L|+|R| clauses, L's then R's, unchanged; either aborts with 'DNF clause
\* limit exceeded' when the count would exceed MaxClauses.
C25_ConjoinDisjoin ==
    LET L == dnf.left.clauses
        Rt == dnf.right.clauses
    IN  /\ pc = "conjoined" =>
              IF Len(L) * Len(Rt) > MaxClauses
              THEN result = Err("DNF clause limit exceeded")
              ELSE /\ ~IsErr(result)
                   /\ Len(result.clauses) = Len(L) * Len(Rt)
                   /\ \A i \in 1..Len(L), j \in 1..Len(Rt) :
                         result.clauses[(i - 1) * Len(Rt) + j].ineqs
                             = L[i].ineqs \o Rt[j].ineqs
        /\ pc = "disjoined" =>
              IF Len(L) + Len(Rt) > MaxClauses
              THEN result = Err("DNF clause limit exceeded")
              ELSE /\ ~IsErr(result)
                   /\ result.clauses = L \o Rt

\* 2 x 3 clauses conjoin to six; the clause of pair (2, 3) holds the two
\* inequalities of L_2 and then R_3's
C25_Witness ==
    /\ pc = "conjoined"
    /\ Len(dnf.left.clauses) = 2
    /\ Len(dnf.right.clauses) = 3
    /\ Len(result.clauses) = 6
    /\ Len(result.clauses[6].ineqs) = 3
    /\ result.clauses[6].ineqs[3] = make(<<LinearTerm(1, R(-1))>>, R(3), FALSE)

\* 3 x 3 = 9 clauses do not fit
C25_WitnessLimit ==
    /\ pc = "conjoined"
    /\ Len(dnf.left.clauses) = 3
    /\ Len(dnf.right.clauses) = 3
    /\ result = Err("DNF clause limit exceeded")

\* 4 + 4 clauses disjoin to eight
C25_WitnessDisjoin ==
    /\ pc = "disjoined"
    /\ Len(dnf.left.clauses) = 4
    /\ Len(dnf.right.clauses) = 4
    /\ Len(result.clauses) = 8

\* ============================== SpecShare: the VarInfo shared by the clauses
\* premise and conclusion are formulas over x, y, z; dnf is what
\* parse_to_system(premise) returned, or the pair [p, q] of DNFs that
\* is_valid_implication_impl holds before it calls clause_implies
ShareAtoms ==
    {Node2("gt", X, Lit(Zero)), Node2("le", Y, Lit(One)),
     Node2("ge", Var("z"), Lit(Zero)), Node2("eq", X, Y)}

ShareFormulas ==
    ShareAtoms \cup Conj2(ShareAtoms, ShareAtoms) \cup Disj2(ShareAtoms, ShareAtoms)
    \cup Neg(Conj2(ShareAtoms, ShareAtoms))

InitShare ==
    /\ pc = "h0"
    /\ premise \in ShareFormulas
    /\ conclusion \in ShareFormulas
    /\ EmptyRest

\* dnf = parse_to_system(premise)
ShareParse ==
    /\ pc = "h0"
    /\ pc' = "parsed"
    /\ dnf' = parse_to_system(premise)
    /\ UNCHANGED <<sys, sysB, work, v, ineq, premise, conclusion, result>>

\* is_valid_implication_impl up to the propagation loop: p_dnf, q_dnf parsed
\* with one VarInfo, then p_dnf.clauses[i].vars = vars
ShareParseBoth ==
    /\ pc = "h0"
    /\ pc' = "both_parsed"
    /\ LET both(p, q) ==
             IF IsErr(q) THEN q
             ELSE [p |-> propagate_vars(p.res, q.vars), q |-> q.res]
           second(p) ==
             both(p, IF IsErr(p) THEN p ELSE parse_to_system_vars(conclusion, p.vars))
       IN  dnf' = second(parse_to_system_vars(premise, EmptyVarInfo))
    /\ UNCHANGED <<sys, sysB, work, v, ineq, premise, conclusion, result>>

NextShare == ShareParse \/ ShareParseBoth

SpecShare == InitShare /\ [][NextShare]_vars

\* every clause of the list carries the registry vs, which names every
\* variable of `names`, and every term indexes into it
ClausesShare(clauses, vs, names) ==
    /\ names \subseteq {vs[i].name : i \in 1..Len(vs)}
    /\ \A c \in 1..Len(clauses) :
          /\ clauses[c].vars = vs
          /\ \A i \in 1..Len(clauses[c].ineqs) :
                \A t \in 1..Len(clauses[c].ineqs[i].terms) :
                    clauses[c].ineqs[i].terms[t].var_id \in 0..(Len(vs) - 1)

\* C26: after parse_to_system every clause carries the same VarInfo, which
\* holds every variable of the formula (also those first seen after the
\* clause was built), and every term's var_id indexes into it; inside
\* is_valid_implication every premise and conclusion clause handed to
\* clause_implies carries one common VarInfo.
C26_SharedVarInfo ==
    /\ pc = "parsed" =>
          /\ ~IsErr(dnf)
          /\ Len(dnf.clauses) >= 1
          /\ ClausesShare(dnf.clauses, dnf.clauses[1].vars, VarsOf(premise))
    /\ pc = "both_parsed" =>
          /\ ~IsErr(dnf)
          /\ Len(dnf.q.clauses) >= 1
          /\ ClausesShare(dnf.p.clauses \o dnf.q.clauses, dnf.q.clauses[1].vars,
                          VarsOf(premise) \cup VarsOf(conclusion))

\* ParseFormula.SharedVarsAcrossDisjunction with z: the clause x > 0 was built
\* before z was seen and carries both variables all the same
C26_Witness ==
    /\ pc = "parsed"
    /\ premise = Node2("lor", Node2("gt", X, Lit(Zero)), Node2("ge", Var("z"), Lit(Zero)))
    /\ Len(dnf.clauses) = 2
    /\ Len(dnf.clauses[1].vars) = 2
    /\ dnf.clauses[1].vars[2].name = "z"

\* a premise clause carries the variable that only the conclusion mentions
C26_WitnessImplication ==
    /\ pc = "both_parsed"
    /\ VarsOf(premise) = {"x"}
    /\ VarsOf(conclusion) = {"z"}
    /\ Len(dnf.p.clauses[1].vars) = 2

\* ====================== SpecSimplify: remove_subsumed_clauses and simplify_dnf
\* the clauses of the DNFs: the intervals [0, 2], [0, 1], [1, 1], [1, 2] and
\* [2, 1] (empty), the open intervals (0, 2) and (0, 1), and the clause
\* without inequalities
SimplifyClauses(vs) ==
    {clause_of(vs, <<LowerBound(ab[1], FALSE), UpperBound(ab[2], FALSE)>>) :
        ab \in {<<0, 2>>, <<0, 1>>, <<1, 1>>, <<1, 2>>, <<2, 1>>}}
    \cup {clause_of(vs, <<LowerBound(0, TRUE), UpperBound(b, TRUE)>>) : b \in 1..2}
    \cup {clause_of(vs, <<>>)}

MaxDnfLen == 3

\* dnf is the ParseResult handed over: up to MaxDnfLen clauses over one registry
InitSimplify ==
    /\ pc = "s0"
    /\ \E vs \in {XInt, XReal} : \E n \in 0..MaxDnfLen :
          \E cs \in [1..n -> SimplifyClauses(vs)] : dnf = [clauses |-> cs]
    /\ sys = EmptySystem
    /\ sysB = EmptySystem
    /\ work = EmptySystem
    /\ v = 0
    /\ ineq = NoIneq
    /\ premise = NoExpr
    /\ conclusion = NoExpr
    /\ result = "none"

\* result = remove_subsumed_clauses(dnf)
CallRemoveSubsumed ==
    /\ pc = "s0"
    /\ pc' = "subsumed"
    /\ result' = remove_subsumed_clauses(dnf)
    /\ UNCHANGED <<sys, sysB, work, v, ineq, premise, conclusion, dnf>>

NextSimplify == CallRemoveSubsumed

SpecSimplify == InitSimplify /\ [][NextSimplify]_vars

\* the assignments of the grid that satisfy the clause
Solutions(c) == {asg \in Assignments(c.vars) : Satisfies(c, asg)}

IsSubList(out, in) ==
    \E keep \in SUBSET (1..Len(in)) : out = ClausesAt(in, keep, 1)

\* C27: remove_subsumed_clauses drops a clause that implies a clause not
\* itself dropped: the output is a sub-list of the input in original order,
\* non-empty whenever the input is, every dropped clause implies a kept one,
\* no kept clause implies another kept clause, and of a chain
\* C3 within C2 within C1 only C1 is left.
C27_SubsumedDropped ==
    pc = "subsumed" =>
      /\ ~IsErr(result)
      /\ IsSubList(result.clauses, dnf.clauses)
      /\ Len(dnf.clauses) >= 1 => Len(result.clauses) >= 1
      /\ \A i \in 1..Len(dnf.clauses) :
            (\A k \in 1..Len(result.clauses) : result.clauses[k] # dnf.clauses[i])
            => \E k \in 1..Len(result.clauses) :
                  clause_implies(dnf.clauses[i], result.clauses[k]) = "true"
      /\ \A k, m \in 1..Len(result.clauses) :
            k # m => clause_implies(result.clauses[k], result.clauses[m]) = "false"
      /\ LET within(sol) ==
                \A c1, c2, c3 \in 1..Len(dnf.clauses) :
                    (/\ sol[c3] \subseteq sol[c2] /\ sol[c3] # sol[c2]
                     /\ sol[c2] \subseteq sol[c1] /\ sol[c2] # sol[c1])
                    => result.clauses = <<dnf.clauses[c1]>>
         IN  Len(dnf.clauses) = 3 =>
                within([i \in 1..3 |-> Solutions(dnf.clauses[i])])

\* RemoveSubsumedClauses.ThreeClausesChainedSubsumption, narrowest first:
\* [1, 1], [0, 1], [0, 2] leaves [0, 2]
C27_Witness ==
    /\ pc = "subsumed"
    /\ dnf.clauses = <<clause_of(XInt, <<LowerBound(1, FALSE), UpperBound(1, FALSE)>>),
                       clause_of(XInt, <<LowerBound(0, FALSE), UpperBound(1, FALSE)>>),
                       clause_of(XInt, <<LowerBound(0, FALSE), UpperBound(2, FALSE)>>)>>
    /\ result.clauses = <<dnf.clauses[3]>>

\* three clauses that are all UNSAT: the first one stays
C27_WitnessAllUnsat ==
    /\ pc = "subsumed"
    /\ Len(dnf.clauses) = 3
    /\ \A i \in 1..3 : Solutions(dnf.clauses[i]) = {}
    /\ dnf.clauses[1] # dnf.clauses[2]
    /\ result.clauses = <<dnf.clauses[1]>>

\* RemoveSubsumedClauses.DisjointKeptBoth
C27_WitnessDisjoint ==
    /\ pc = "subsumed"
    /\ Len(dnf.clauses) = 2
    /\ result.clauses = dnf.clauses

\* ------------------------------------------------ SpecSimplifyDnf: simplify_dnf
XIntYReal == <<[name |-> "x", is_integer |-> TRUE], [name |-> "y", is_integer |-> FALSE]>>

\* clauses over x integer, y real: 0 < x + y < 1, 0 <= x <= 1, y >= 0, and the
\* clause without inequalities
MixedClauses ==
    {clause_of(XIntYReal,
               <<make(<<LinearTerm(0, One), LinearTerm(1, One)>>, Zero, TRUE),
                 make(<<LinearTerm(0, R(-1)), LinearTerm(1, R(-1))>>, One, TRUE)>>),
     clause_of(XIntYReal, <<LowerBound(0, FALSE), UpperBound(1, FALSE)>>),
     clause_of(XIntYReal, <<make(<<LinearTerm(1, One)>>, Zero, FALSE)>>),
     clause_of(XIntYReal, <<>>)}

ClausesOver(vs) == IF vs = XIntYReal THEN MixedClauses ELSE SimplifyClauses(vs)

InitSimplifyDnf ==
    /\ pc = "s0"
    /\ \E vs \in {XInt, XReal, XIntYReal} : \E n \in 0..MaxDnfLen :
          \E cs \in [1..n -> ClausesOver(vs)] : dnf = [clauses |-> cs]
    /\ sys = EmptySystem
    /\ sysB = EmptySystem
    /\ work = EmptySystem
    /\ v = 0
    /\ ineq = NoIneq
    /\ premise = NoExpr
    /\ conclusion = NoExpr
    /\ result = "none"

\* result = simplify_dnf(dnf)
CallSimplify ==
    /\ pc = "s0"
    /\ pc' = "simplified"
    /\ result' = simplify_dnf(dnf)
    /\ UNCHANGED <<sys, sysB, work, v, ineq, premise, conclusion, dnf>>

NextSimplifyDnf == CallSimplify

SpecSimplifyDnf == InitSimplifyDnf /\ [][NextSimplifyDnf]_vars

\* some clause of the list is satisfied by the assignment
SomeClauseHolds(clauses, asg) ==
    \E i \in 1..Len(clauses) : Satisfies(clauses[i], asg)

Kept(c) == \E k \in 1..Len(result.clauses) : result.clauses[k] = c

SimplifyCorrect ==
    /\ ~IsErr(result)
    /\ IsSubList(result.clauses, dnf.clauses)
    /\ \A k \in 1..Len(result.clauses) : fm_is_unsat(result.clauses[k]) = "false"
    /\ \A i \in 1..Len(dnf.clauses) :
          ~Kept(dnf.clauses[i]) =>
             \/ Solutions(dnf.clauses[i]) = {}
             \/ \E k \in 1..Len(result.clauses) :
                   Solutions(dnf.clauses[i]) \subseteq Solutions(result.clauses[k])
    /\ Len(dnf.clauses) >= 1 =>
          \A asg \in Assignments(dnf.clauses[1].vars) :
              SomeClauseHolds(dnf.clauses, asg) <=> SomeClauseHolds(result.clauses, asg)
    /\ (\A i \in 1..Len(dnf.clauses) : fm_is_unsat(dnf.clauses[i]) = "true")
          => result = [clauses |-> <<>>]

\* C28: simplify_dnf removes the clauses reported UNSAT and then the subsumed
\* ones, and the result has the same satisfying assignments as the input:
\* every removed clause is unsatisfiable or implies a kept clause, every kept
\* clause is an unchanged input clause, and an input whose clauses are all
\* UNSAT (or an empty input) yields the empty DNF.
C28_SimplifyPreservesSolutions == pc = "simplified" => SimplifyCorrect

\* the same statement for DNFs whose variables all have one domain
C28_SimplifySameDomain ==
    (pc = "simplified" /\ (dnf.clauses = <<>> \/ dnf.clauses[1].vars # XIntYReal))
        => SimplifyCorrect

\* the one-clause DNF 0 < x + y < 1 (x integer, y real) has the solution
\* x = 0, y = 1/2 and simplifies to the empty DNF
C28_FailingState ==
    /\ pc = "simplified"
    /\ Len(dnf.clauses) = 1
    /\ dnf.clauses[1].vars = XIntYReal
    /\ Satisfies(dnf.clauses[1], <<Zero, Rat(1, 2)>>)
    /\ result = [clauses |-> <<>>]

\* SimplifyDnf.RemovesUnsatAndSubsumed: [2, 1] is UNSAT, [0, 1] lies in [0, 2]
C28_WitnessSameDomain ==
    /\ pc = "simplified"
    /\ dnf.clauses = <<clause_of(XInt, <<LowerBound(2, FALSE), UpperBound(1, FALSE)>>),
                       clause_of(XInt, <<LowerBound(0, FALSE), UpperBound(2, FALSE)>>),
                       clause_of(XInt, <<LowerBound(0, FALSE), UpperBound(1, FALSE)>>)>>
    /\ result.clauses = <<dnf.clauses[2]>>

\* ============== SpecRoundInt: round_integer_bound as eliminate_variable calls it
\* ineq is a bound over the integer variables x (id 0) and y (id 1), v the
\* eliminated variable, result the rounded bound
MaxRoundConst == 3
MaxIntGrid == 8

RoundCoeffs == {R(-2), R(-1), Rat(-1, 2), Rat(1, 2), R(1), R(2), R(3)}
RoundConsts == {Rat(k, 2) : k \in (-2 * MaxRoundConst)..(2 * MaxRoundConst)}

RoundIntIneqs ==
    {make(<<LinearTerm(0, a)>>, c, s) :
        a \in RoundCoeffs \cup {R(-3)}, c \in RoundConsts, s \in BOOLEAN}
    \cup {make(<<LinearTerm(0, a), LinearTerm(1, b)>>, c, s) :
            a \in RoundCoeffs, b \in RoundCoeffs, c \in RoundConsts, s \in BOOLEAN}

InitRoundInt ==
    /\ pc = "b0"
    /\ ineq \in RoundIntIneqs
    /\ sys = [ineqs |-> <<>>, vars |-> XYInt]
    /\ sysB = EmptySystem
    /\ work = EmptySystem
    /\ v = 0
    /\ premise = NoExpr
    /\ conclusion = NoExpr
    /\ dnf = EmptyDnf
    /\ result = NoIneq

\* the rounding loops of eliminate_variable for a bound on var_id:
\* round_integer_bound(lowers[i], true, coeff) for a positive coefficient,
\* round_integer_bound(uppers[i], false, -coeff) for a negative one
RoundBound(var_id) ==
    /\ pc = "b0"
    /\ ~RIsZero(coeff_of(ineq, var_id))
    /\ pc' = "bound_rounded"
    /\ v' = var_id
    /\ result' = IF RPos(coeff_of(ineq, var_id))
                 THEN round_integer_bound(ineq, TRUE, coeff_of(ineq, var_id))
                 ELSE round_integer_bound(ineq, FALSE, RNeg(coeff_of(ineq, var_id)))
    /\ UNCHANGED <<sys, sysB, work, ineq, premise, conclusion, dnf>>

NextRoundInt == \E var_id \in 0..1 : RoundBound(var_id)

SpecRoundInt == InitRoundInt /\ [][NextRoundInt]_vars

\* the all-integer assignments of x and y tried by substitution
IntAssignments == {<<R(a), R(b)>> : a, b \in (-MaxIntGrid)..MaxIntGrid}

\* C29: for a bound whose variables are all integer, with is_lower matching
\* the sign of the target variable's coefficient, round_integer_bound leaves
\* terms and coefficients untouched, never increases the constant, and the
\* output is satisfied by exactly the same all-integer assignments.
C29_RoundingPreservesIntegerSolutions ==
    pc = "bound_rounded" =>
      /\ result.terms = ineq.terms
      /\ RLe(result.constant, ineq.constant)
      /\ \A asg \in IntAssignments : Holds(result, asg) <=> Holds(ineq, asg)

\* FMElimNonUnit.MultiVarNoNormalization with a fractional constant:
\* 2x + 3y - 5/2 > 0 on x becomes 2x + 3y - 3 >= 0; x = 0, y = 1 satisfies both
C29_Witness ==
    /\ pc = "bound_rounded"
    /\ v = 0
    /\ ineq = make(<<LinearTerm(0, R(2)), LinearTerm(1, R(3))>>, Rat(-5, 2), TRUE)
    /\ result = make(<<LinearTerm(0, R(2)), LinearTerm(1, R(3))>>, R(-3), FALSE)
    /\ Holds(ineq, <<R(0), R(1)>>)
    /\ Holds(result, <<R(0), R(1)>>)

\* a strict single-variable upper bound: -3x + 3 > 0 becomes -3x >= 0
C29_WitnessStrictUpper ==
    /\ pc = "bound_rounded"
    /\ ineq = make(<<LinearTerm(0, R(-3))>>, R(3), TRUE)
    /\ result = make(<<LinearTerm(0, R(-3))>>, Zero, FALSE)

\* ===================================== SpecTerm: fm_is_unsat runs to its end
\* sys is the system handed to fm_is_unsat; CallFm, Eliminate and Finish are
\* the steps of the call as in SpecFM, v counts the finished rounds
MaxTermVars == 3

TermRegistries ==
    {NamedVars(SubSeq(<<"x", "y", "z", "w">>, 1, n), i) :
        n \in 0..MaxTermVars, i \in BOOLEAN}

\* at most two terms, one per chosen variable id below n, in id order,
\* coefficient 1 or -1
TermLists(n) ==
    {ts \in {SelectSeq([i \in 1..n |-> LinearTerm(i - 1, R(f[i]))],
                       LAMBDA t : ~RIsZero(t.coeff)) : f \in [1..n -> {-1, 0, 1}]} :
        Len(ts) <= 2}

TermIneqs(n) ==
    {make(ts, c, FALSE) : ts \in TermLists(n), c \in {R(-1), Zero}}

\* up to two inequalities over the registry, and two systems whose first
\* round exceeds MaxIneqs or MaxTermsPerIneq
TermSystems ==
    {[vars |-> r, ineqs |-> qs] :
        r \in TermRegistries, qs \in {<<>>}}
    \cup UNION {{[vars |-> r, ineqs |-> <<q>>] : q \in TermIneqs(Len(r))} :
                  r \in TermRegistries}
    \cup UNION {{[vars |-> r, ineqs |-> <<q1, q2>>] :
                    q1 \in TermIneqs(Len(r)), q2 \in TermIneqs(Len(r))} :
                  r \in TermRegistries}
    \cup {SysOf(9, 8, 0), WideSys(4, 5)}

InitTerm ==
    /\ pc = "s0"
    /\ sys \in TermSystems
    /\ sysB = EmptySystem
    /\ work = EmptySystem
    /\ v = 0
    /\ ineq = NoIneq
    /\ premise = NoExpr
    /\ conclusion = NoExpr
    /\ dnf = EmptyDnf
    /\ result = "none"

NextTerm == CallFm \/ Eliminate \/ Finish

SpecTerm == InitTerm /\ [][NextTerm]_vars

\* a step of the running for loop of fm_is_unsat: the loop position (pc, v)
\* moves by one round or to the return
LoopStep ==
    /\ pc = "elim"
    /\ pc' \in {"elim", "done"}
    /\ v' \in {v, v + 1}

\* the for loop is sequential code: while the call is running, a step that
\* moves the loop position is eventually taken
SpecTermFair == SpecTerm /\ WF_<<pc, v>>(LoopStep)

CapacityErrors ==
    {"InequalitySystem capacity exceeded", "combine_bounds: too many terms"}

NoVariableTerms(s) == \A i \in 1..Len(s.ineqs) : Len(s.ineqs[i].terms) = 0

TermOutcome ==
    /\ pc = "elim" => v <= Len(sys.vars)
    /\ pc = "done" =>
          /\ result \in {"true", "false"} \cup CapacityErrors
          /\ result \in {"true", "false"} =>
                /\ v = Len(sys.vars)
                /\ NoVariableTerms(work)

\* C30: fm_is_unsat always finishes: with n registered variables, every
\* var_id below n and no zero coefficient, it runs exactly n elimination
\* rounds, hands has_contradiction a system without variable terms, and ends
\* with a boolean verdict or a capacity error, never with 'system still has
\* variable terms'.
C30_AlwaysFinishes == []TermOutcome /\ ((pc = "elim") ~> (pc = "done"))

\* three variables, three rounds: x - y >= 0 and y - z - 1 >= 0 leave nothing
C30_Witness ==
    /\ pc = "done"
    /\ Len(sys.vars) = 3
    /\ sys.ineqs = <<make(<<LinearTerm(0, One), LinearTerm(1, R(-1))>>, Zero, FALSE),
                     make(<<LinearTerm(1, One), LinearTerm(2, R(-1))>>, R(-1), FALSE)>>
    /\ v = 3
    /\ result = "false"

\* 9 lower and 8 upper bounds on x: the first round ends the call with the
\* capacity error
C30_WitnessCapacity ==
    /\ pc = "done"
    /\ sys = SysOf(9, 8, 0)
    /\ v = 0
    /\ result = "InequalitySystem capacity exceeded"

\* no variable at all: no round, and the constants decide
C30_WitnessNoVariable ==
    /\ pc = "done"
    /\ Len(sys.vars) = 0
    /\ v = 0
    /\ result = "true"
====
